---- MODULE Spec2Model ----
(***************************************************************************)
(* State-machine model of golang-system-monitor-tui: the Bubble Tea        *)
(* MainModel reducer, its four component models (CPU, Memory, Disk,        *)
(* Network), the collection commands it launches and the network rate      *)
(* calculation.                                                            *)
(*                                                                         *)
(* Time is counted in update intervals: `now` advances by one each time a  *)
(* TickMsg is delivered.  time.Time values are integers on that scale and  *)
(* a float64 rate is represented by the exact fraction it approximates     *)
(* (numerator n, denominator d, in lowest terms).                          *)
(***************************************************************************)
EXTENDS Integers, Sequences, FiniteSets, Bags, TLC

VARIABLES
    cpu, memory, disk, network,          \* MainModel: the component models
    focused, showHelp, width, height,    \* MainModel: focus, help flag, size
    quit,                                \* Update returned tea.Quit
    now,                                 \* the clock
    ticks,                               \* pending tick commands
    running,                             \* running collection commands
    msgs,                                \* messages waiting for Update
    refreshes,                           \* manual refreshes so far
    args, out,                           \* a call of calculateRates
    streak, wiped                        \* error events since the last success

vars == <<cpu, memory, disk, network, focused, showHelp, width, height, quit,
          now, ticks, running, msgs, refreshes, args, out, streak, wiped>>

\* The variables only the runs of SpecUpdate and SpecRates use.
auxVars == <<args, out, streak, wiped>>

modelVars == <<cpu, memory, disk, network, focused, showHelp, width, height, quit>>

progVars == <<cpu, memory, disk, network, focused, showHelp, width, height, quit,
              now, ticks, running, msgs, refreshes>>

(***************************************************************************)
(* Bounds of the model.                                                    *)
(***************************************************************************)
\* Number of update intervals the clock runs through.
MaxTime == 1

\* Commands of one resource that may be running or undelivered at once.
MaxInFlight == 1

\* Messages of finished commands waiting to be applied at once.
MaxQueued == 1

\* Manual refresh key presses in one run.
MaxRefresh == 1

\* Events fed to the reducer in one run of SpecUpdate.
MaxEvents == 4

\* Largest cumulative byte counter value an interface reports.
MaxCounter == 2

\* Largest capture timestamp of the snapshots of SpecNet and SpecRates.
MaxStamp == 2

(***************************************************************************)
(* Program constants.                                                      *)
(***************************************************************************)
maxHistory == 60
KB == 1024
MB == 1048576
GB == 1073741824

Resources == {"CPU", "Memory", "Disk", "Network"}

FocusCPU == 0
FocusMemory == 1
FocusDisk == 2
FocusNetwork == 3

\* Integer division as Go performs it (truncation toward zero).
GoDiv(a, b) == IF a >= 0 THEN a \div b ELSE -((-a) \div b)

RECURSIVE GCD(_, _)
GCD(a, b) == IF b = 0 THEN a ELSE GCD(b, a % b)

\* The float64 quotient float64(delta) / timeDiff as the exact fraction in
\* lowest terms (timeDiff > 0).  Zero is 0/1 whatever the divisor.
Quotient(delta, timeDiff) ==
    LET g == GCD(delta, timeDiff)
    IN  [n |-> delta \div g, d |-> timeDiff \div g]

ZeroRate == [n |-> 0, d |-> 1]

(***************************************************************************)
(* models: snapshot types and errors.                                      *)
(***************************************************************************)
CPUInfo(cores, usage, total, ts) ==
    [Cores |-> cores, Usage |-> usage, Total |-> total, Timestamp |-> ts]

SwapInfo(total, used, free) == [Total |-> total, Used |-> used, Free |-> free]

MemoryInfo(total, used, available, swap, ts) ==
    [Total |-> total, Used |-> used, Available |-> available, Swap |-> swap,
     Timestamp |-> ts]

DiskInfo(device, mountpoint, filesystem, total, used, available, usedPercent) ==
    [Device |-> device, Mountpoint |-> mountpoint, Filesystem |-> filesystem,
     Total |-> total, Used |-> used, Available |-> available,
     UsedPercent |-> usedPercent]

NetworkInfo(name, bytesSent, bytesRecv, ts) ==
    [Interface |-> name, BytesSent |-> bytesSent, BytesRecv |-> bytesRecv,
     PacketsSent |-> 0, PacketsRecv |-> 0, Timestamp |-> ts]

NetworkStats(sendRate, recvRate) == [SendRate |-> sendRate, RecvRate |-> recvRate]

ErrorTypes == {"PermissionError", "TemporaryError"}

\* The message the collector attaches to an error of the given type.
CollectorMessage(component, errType) ==
    CASE component = "CPU" /\ errType = "PermissionError" ->
             "Permission denied accessing CPU information"
      [] component = "CPU" -> "Temporary error collecting CPU data"
      [] component = "Memory" /\ errType = "PermissionError" ->
             "Permission denied accessing memory information"
      [] component = "Memory" -> "Temporary error collecting memory data"
      [] component = "Disk" /\ errType = "PermissionError" ->
             "Permission denied accessing disk partitions"
      [] component = "Disk" -> "Temporary error collecting disk partitions"
      [] component = "Network" /\ errType = "PermissionError" ->
             "Permission denied accessing network interface statistics"
      [] OTHER -> "Temporary error collecting network data"

CreateSystemError(errorType, component, message, ts) ==
    [Type |-> errorType, Message |-> message, Component |-> component,
     Timestamp |-> ts]

NoError == [Type |-> "nil", Message |-> "", Component |-> "", Timestamp |-> 0]

(***************************************************************************)
(* Rendered text: a view is a sequence of lines; a line keeps its kind,    *)
(* its literal text and the numbers printed in it.                         *)
(***************************************************************************)
Line(kind, text, vals) == [kind |-> kind, text |-> text, vals |-> vals]

BlankLine == Line("blank", "", <<>>)

RECURSIVE PadTo(_, _)
\* for len(sections) < m.height { sections = append(sections, "") }
PadTo(sections, h) ==
    IF Len(sections) < h THEN PadTo(Append(sections, BlankLine), h) ELSE sections

RenderHeader(title) == Line("header", title, <<>>)

RenderPlaceholder(title, message) ==
    <<RenderHeader(title), Line("placeholder", message, <<>>)>>

\* Value in tenths of the unit, rounded to nearest, as "%.1f" prints it.
Tenths(bytes, unit) == (bytes * 20 + unit) \div (2 * unit)

\* formatBytes: <<printed value, unit>>, unit 0 = B, 1 = KB, 2 = MB, 3 = GB.
\* The TB tier lies beyond the integers of the model.
formatBytes(bytes) ==
    IF bytes >= GB THEN <<Tenths(bytes \div KB, MB), 3>>
    ELSE IF bytes >= MB THEN <<Tenths(bytes, MB), 2>>
    ELSE IF bytes >= KB THEN <<Tenths(bytes, KB), 1>>
    ELSE <<bytes, 0>>

\* used / total * 100 in tenths of a percent, as "%.1f%%" prints it.
Percent10(used, total) == (used * 2000 + total) \div (2 * total)

(***************************************************************************)
(* Messages handled by the Update methods.  Every message is a record      *)
(* [type, info, err, key, w, h]; the fields a message type does not carry  *)
(* hold zero values.                                                       *)
(***************************************************************************)
Msg(type, info, err) ==
    [type |-> type, info |-> info, err |-> err, key |-> "", w |-> 0, h |-> 0]

ErrorMsg(systemErr) == Msg("ErrorMsg", <<>>, systemErr)

(***************************************************************************)
(* ui.CPUModel                                                             *)
(***************************************************************************)
NewCPUModel ==
    [usage |-> <<>>, total |-> 0, cores |-> 0, history |-> <<>>,
     lastUpdate |-> 0, width |-> 40, height |-> 10,
     hasError |-> FALSE, errorMessage |-> "", lastError |-> 0]

\* A trim that drops the newest entry instead of the oldest.
TrimHistoryKeepsOldest(h) == IF Len(h) > maxHistory THEN SubSeq(h, 1, Len(h) - 1) ELSE h

\* Keep only the last maxHistory entries.
TrimHistory(h) == IF Len(h) > maxHistory THEN Tail(h) ELSE h

\* The history part of CPUModel.Update: one series per core, created on the
\* first sample, each extended by the core's current usage.
AddToHistory(history, usage) ==
    IF Len(usage) > 0
    THEN LET h0 == IF Len(history) = 0
                   THEN [i \in 1..Len(usage) |-> <<>>]
                   ELSE history
         IN  [i \in 1..Len(h0) |->
                 IF i <= Len(usage)
                 THEN TrimHistory(Append(h0[i], usage[i]))
                 ELSE h0[i]]
    ELSE history

\* CPUModelUpdate without the test of the error's component.
CPUModelUpdateAnyError(m, msg) ==
    CASE msg.type = "CPUUpdateMsg" ->
             [m EXCEPT !.hasError = FALSE,
                       !.errorMessage = "",
                       !.usage = msg.info.Usage,
                       !.total = msg.info.Total,
                       !.cores = msg.info.Cores,
                       !.lastUpdate = msg.info.Timestamp,
                       !.history = AddToHistory(m.history, msg.info.Usage)]
      [] msg.type = "ErrorMsg" ->
             [m EXCEPT !.hasError = TRUE,
                       !.errorMessage = msg.err.Message,
                       !.lastError = msg.err.Timestamp]
      [] OTHER -> m

\* An update whose error case appends the new message to the stored one.
CPUModelUpdateAccumulates(m, msg) ==
    CASE msg.type = "CPUUpdateMsg" ->
             [m EXCEPT !.hasError = FALSE,
                       !.errorMessage = "",
                       !.usage = msg.info.Usage,
                       !.total = msg.info.Total,
                       !.cores = msg.info.Cores,
                       !.lastUpdate = msg.info.Timestamp,
                       !.history = AddToHistory(m.history, msg.info.Usage)]
      [] msg.type = "ErrorMsg" ->
             IF msg.err.Component = "CPU"
             THEN [m EXCEPT !.hasError = TRUE,
                            !.errorMessage = IF m.hasError
                                             THEN m.errorMessage \o "; " \o msg.err.Message
                                             ELSE msg.err.Message,
                            !.lastError = msg.err.Timestamp]
             ELSE m
      [] OTHER -> m

CPUModelUpdate(m, msg) ==
    CASE msg.type = "CPUUpdateMsg" ->
             [m EXCEPT !.hasError = FALSE,
                       !.errorMessage = "",
                       !.usage = msg.info.Usage,
                       !.total = msg.info.Total,
                       !.cores = msg.info.Cores,
                       !.lastUpdate = msg.info.Timestamp,
                       !.history = AddToHistory(m.history, msg.info.Usage)]
      [] msg.type = "ErrorMsg" ->
             IF msg.err.Component = "CPU"
             THEN [m EXCEPT !.hasError = TRUE,
                            !.errorMessage = msg.err.Message,
                            !.lastError = msg.err.Timestamp]
             ELSE m
      [] OTHER -> m

\* The fallback shown by every component while its error flag is set.
ErrorView(title, m, unavailable, na1, na2) ==
    PadTo(<<RenderHeader(title),
            Line("error", m.errorMessage, <<>>),
            Line("unavailable", unavailable, <<>>),
            Line("na", na1, <<>>),
            Line("na", na2, <<>>)>>, m.height)

CPUModelView(m) ==
    IF m.hasError
    THEN ErrorView("CPU Usage", m, "CPU data unavailable", "Total: N/A", "Cores: N/A")
    ELSE IF m.cores = 0
    THEN RenderPlaceholder("CPU Usage", "Loading CPU data...")
    ELSE PadTo(<<RenderHeader("CPU Usage"), Line("data", "Total", <<m.total>>)>>
               \o [i \in 1..Len(m.usage) |-> Line("data", "Core", <<i, m.usage[i]>>)],
               m.height)

\* A resize that also drops the usage data shown.
CPUModelSetSizeResets(m, w, h) ==
    [m EXCEPT !.width = w, !.height = h, !.usage = <<>>, !.cores = 0]

CPUModelSetSize(m, w, h) == [m EXCEPT !.width = w, !.height = h]

(***************************************************************************)
(* ui.MemoryModel                                                          *)
(***************************************************************************)
NewMemoryModel ==
    [total |-> 0, used |-> 0, available |-> 0, swap |-> SwapInfo(0, 0, 0),
     lastUpdate |-> 0, width |-> 40, height |-> 8,
     hasError |-> FALSE, errorMessage |-> "", lastError |-> 0]

MemoryModelUpdate(m, msg) ==
    CASE msg.type = "MemoryUpdateMsg" ->
             [m EXCEPT !.hasError = FALSE,
                       !.errorMessage = "",
                       !.total = msg.info.Total,
                       !.used = msg.info.Used,
                       !.available = msg.info.Available,
                       !.swap = msg.info.Swap,
                       !.lastUpdate = msg.info.Timestamp]
      [] msg.type = "ErrorMsg" ->
             IF msg.err.Component = "Memory"
             THEN [m EXCEPT !.hasError = TRUE,
                            !.errorMessage = msg.err.Message,
                            !.lastError = msg.err.Timestamp]
             ELSE m
      [] OTHER -> m

\* MemoryModelView that looks for data before it looks at the error flag.
MemoryModelViewStale(m) ==
    IF m.total = 0 /\ ~m.hasError
    THEN RenderPlaceholder("Memory Usage", "Loading memory data...")
    ELSE IF m.total = 0
    THEN ErrorView("Memory Usage", m, "Memory data unavailable", "RAM: N/A", "Swap: N/A")
    ELSE PadTo(<<RenderHeader("Memory Usage"),
                 Line("error", m.errorMessage, <<>>),
                 Line("data", "RAM", <<Percent10(m.used, m.total)>>),
                 Line("data", "RAM details", formatBytes(m.used) \o formatBytes(m.total))>>,
               m.height)

MemoryModelView(m) ==
    IF m.hasError
    THEN ErrorView("Memory Usage", m, "Memory data unavailable", "RAM: N/A", "Swap: N/A")
    ELSE IF m.total = 0
    THEN RenderPlaceholder("Memory Usage", "Loading memory data...")
    ELSE PadTo(<<RenderHeader("Memory Usage"),
                 Line("data", "RAM", <<Percent10(m.used, m.total)>>),
                 Line("data", "RAM details", formatBytes(m.used) \o formatBytes(m.total))>>
               \o (IF m.swap.Total > 0
                   THEN <<Line("data", "Swap", <<Percent10(m.swap.Used, m.swap.Total)>>),
                          Line("data", "Swap details",
                               formatBytes(m.swap.Used) \o formatBytes(m.swap.Total))>>
                   ELSE <<Line("muted", "Swap: Not configured", <<>>)>>),
               m.height)

MemoryModelSetSize(m, w, h) == [m EXCEPT !.width = w, !.height = h]

(***************************************************************************)
(* ui.DiskModel                                                            *)
(***************************************************************************)
NewDiskModel ==
    [filesystems |-> <<>>, lastUpdate |-> 0, width |-> 50, height |-> 10,
     hasError |-> FALSE, errorMessage |-> "", lastError |-> 0]

\* DiskModelUpdate that stores the new data and leaves the error state.
DiskModelUpdateKeepsError(m, msg, t) ==
    CASE msg.type = "DiskUpdateMsg" ->
             [m EXCEPT !.filesystems = msg.info,
                       !.lastUpdate = t]
      [] msg.type = "ErrorMsg" ->
             IF msg.err.Component = "Disk"
             THEN [m EXCEPT !.hasError = TRUE,
                            !.errorMessage = msg.err.Message,
                            !.lastError = msg.err.Timestamp]
             ELSE m
      [] OTHER -> m

\* t is time.Now() at the call.
DiskModelUpdate(m, msg, t) ==
    CASE msg.type = "DiskUpdateMsg" ->
             [m EXCEPT !.hasError = FALSE,
                       !.errorMessage = "",
                       !.filesystems = msg.info,
                       !.lastUpdate = t]
      [] msg.type = "ErrorMsg" ->
             IF msg.err.Component = "Disk"
             THEN [m EXCEPT !.hasError = TRUE,
                            !.errorMessage = msg.err.Message,
                            !.lastError = msg.err.Timestamp]
             ELSE m
      [] OTHER -> m

RECURSIVE DiskLines(_)
\* Two lines per filesystem: the usage bar line, styled by threshold, and
\* the size details.
DiskLines(fss) ==
    IF fss = <<>> THEN <<>>
    ELSE LET fs == Head(fss)
             style == IF fs.UsedPercent >= 90 THEN "critical"
                      ELSE IF fs.UsedPercent >= 70 THEN "warning"
                      ELSE "data"
         IN  <<Line(style, fs.Mountpoint, <<fs.UsedPercent>>),
               Line("data", "size", formatBytes(fs.Used) \o formatBytes(fs.Total))>>
             \o DiskLines(Tail(fss))

DiskModelView(m) ==
    IF m.hasError
    THEN ErrorView("Disk Usage", m, "Disk data unavailable", "Filesystems: N/A", "Usage: N/A")
    ELSE IF Len(m.filesystems) = 0
    THEN RenderPlaceholder("Disk Usage", "Loading disk data...")
    ELSE PadTo(<<RenderHeader("Disk Usage")>> \o DiskLines(m.filesystems), m.height)

DiskModelSetSize(m, w, h) == [m EXCEPT !.width = w, !.height = h]

(***************************************************************************)
(* ui.NetworkModel and the rate calculation                                *)
(***************************************************************************)
\* A Go map[string]V: a function whose domain is the set of keys.
EmptyMap == [k \in {} |-> 0]

MapPut(map, k, v) == [x \in (DOMAIN map) \cup {k} |-> IF x = k THEN v ELSE map[x]]

RECURSIVE BuildPrevMap(_, _)
\* for _, prev := range previous { prevMap[prev.Interface] = prev }
BuildPrevMap(previous, prevMap) ==
    IF previous = <<>> THEN prevMap
    ELSE BuildPrevMap(Tail(previous),
                      MapPut(prevMap, Head(previous).Interface, Head(previous)))

\* A rate calculation that reports the counter difference itself, whatever
\* the time between the snapshots.
DirectionRateUndivided(currBytes, prevBytes, timeDiff) ==
    IF currBytes >= prevBytes
    THEN Quotient(currBytes - prevBytes, 1)
    ELSE ZeroRate

\* A rate calculation without the rollover test: the signed difference over
\* the time difference.
DirectionRateSigned(currBytes, prevBytes, timeDiff) ==
    Quotient(currBytes - prevBytes, timeDiff)

\* One direction of the rate: the counter difference over the time
\* difference, or 0 when the counter went backwards (rollover).
DirectionRate(currBytes, prevBytes, timeDiff) ==
    IF currBytes >= prevBytes
    THEN Quotient(currBytes - prevBytes, timeDiff)
    ELSE ZeroRate

RECURSIVE RatesLoopNewInterfaces(_, _, _)
\* A loop that also gives an interface absent from the previous snapshot an
\* entry, with both rates 0.
RatesLoopNewInterfaces(prevMap, current, rates) ==
    IF current = <<>> THEN rates
    ELSE LET curr == Head(current)
         IN  IF curr.Interface \in DOMAIN prevMap
             THEN LET prev == prevMap[curr.Interface]
                      timeDiff == curr.Timestamp - prev.Timestamp
                  IN  IF timeDiff > 0
                      THEN RatesLoopNewInterfaces(prevMap, Tail(current),
                                MapPut(rates, curr.Interface,
                                    NetworkStats(
                                        DirectionRate(curr.BytesSent, prev.BytesSent, timeDiff),
                                        DirectionRate(curr.BytesRecv, prev.BytesRecv, timeDiff))))
                      ELSE RatesLoopNewInterfaces(prevMap, Tail(current), rates)
             ELSE RatesLoopNewInterfaces(prevMap, Tail(current),
                      MapPut(rates, curr.Interface, NetworkStats(ZeroRate, ZeroRate)))

RECURSIVE RatesLoopKeepsStalled(_, _, _)
\* A loop that stores an entry with both rates 0 when no time has elapsed
\* between the two entries of an interface, instead of skipping it.
RatesLoopKeepsStalled(prevMap, current, rates) ==
    IF current = <<>> THEN rates
    ELSE LET curr == Head(current)
         IN  IF curr.Interface \in DOMAIN prevMap
             THEN LET prev == prevMap[curr.Interface]
                      timeDiff == curr.Timestamp - prev.Timestamp
                  IN  IF timeDiff > 0
                      THEN RatesLoopKeepsStalled(prevMap, Tail(current),
                                MapPut(rates, curr.Interface,
                                    NetworkStats(
                                        DirectionRate(curr.BytesSent, prev.BytesSent, timeDiff),
                                        DirectionRate(curr.BytesRecv, prev.BytesRecv, timeDiff))))
                      ELSE RatesLoopKeepsStalled(prevMap, Tail(current),
                                MapPut(rates, curr.Interface,
                                       NetworkStats(ZeroRate, ZeroRate)))
             ELSE RatesLoopKeepsStalled(prevMap, Tail(current), rates)

RECURSIVE RatesLoopAnyOrder(_, _, _)
\* A loop that skips an interface only when no time at all lies between its
\* two entries, and measures a reversed pair over the absolute time.
RatesLoopAnyOrder(prevMap, current, rates) ==
    IF current = <<>> THEN rates
    ELSE LET curr == Head(current)
         IN  IF curr.Interface \in DOMAIN prevMap
             THEN LET prev == prevMap[curr.Interface]
                      timeDiff == curr.Timestamp - prev.Timestamp
                      elapsed == IF timeDiff < 0 THEN 0 - timeDiff ELSE timeDiff
                  IN  IF timeDiff # 0
                      THEN RatesLoopAnyOrder(prevMap, Tail(current),
                                MapPut(rates, curr.Interface,
                                    NetworkStats(
                                        DirectionRate(curr.BytesSent, prev.BytesSent, elapsed),
                                        DirectionRate(curr.BytesRecv, prev.BytesRecv, elapsed))))
                      ELSE RatesLoopAnyOrder(prevMap, Tail(current), rates)
             ELSE RatesLoopAnyOrder(prevMap, Tail(current), rates)

RECURSIVE RatesLoop(_, _, _)
\* The loop over current of calculateRates.
RatesLoop(prevMap, current, rates) ==
    IF current = <<>> THEN rates
    ELSE LET curr == Head(current)
         IN  IF curr.Interface \in DOMAIN prevMap
             THEN LET prev == prevMap[curr.Interface]
                      timeDiff == curr.Timestamp - prev.Timestamp
                  IN  IF timeDiff > 0
                      THEN RatesLoop(prevMap, Tail(current),
                                MapPut(rates, curr.Interface,
                                    NetworkStats(
                                        DirectionRate(curr.BytesSent, prev.BytesSent, timeDiff),
                                        DirectionRate(curr.BytesRecv, prev.BytesRecv, timeDiff))))
                      ELSE RatesLoop(prevMap, Tail(current), rates)
             ELSE RatesLoop(prevMap, Tail(current), rates)

calculateRates(previous, current) ==
    RatesLoop(BuildPrevMap(previous, EmptyMap), current, EmptyMap)

NewNetworkModel ==
    [interfaces |-> <<>>, previousData |-> <<>>, rates |-> EmptyMap,
     lastUpdate |-> 0, width |-> 50, height |-> 10,
     hasError |-> FALSE, errorMessage |-> "", lastError |-> 0]

\* An update that computes the rates after the new snapshot has replaced the
\* stored one: both arguments are the new snapshot.
StoredRatesAfterOverwrite(m, previousData, interfaces) ==
    IF Len(previousData) > 0
    THEN calculateRates(interfaces, interfaces)
    ELSE m.rates

\* An update that adds the new entries to the stored map and keeps the
\* entries the new round did not produce.
StoredRatesMerged(m, previousData, interfaces) ==
    IF Len(previousData) > 0
    THEN LET new == calculateRates(previousData, interfaces)
         IN  [k \in (DOMAIN m.rates) \cup (DOMAIN new) |->
                 IF k \in DOMAIN new THEN new[k] ELSE m.rates[k]]
    ELSE m.rates

\* The rate map stored by a successful update whose previous snapshot is
\* previousData: recomputed only when there is previous data.
StoredRates(m, previousData, interfaces) ==
    IF Len(previousData) > 0
    THEN calculateRates(previousData, interfaces)
    ELSE m.rates

\* An update whose error case also drops the stored snapshots and rates.
NetworkModelUpdateDropsData(m, msg, t) ==
    CASE msg.type = "NetworkUpdateMsg" ->
             [m EXCEPT !.hasError = FALSE,
                       !.errorMessage = "",
                       !.previousData = m.interfaces,
                       !.interfaces = msg.info,
                       !.lastUpdate = t,
                       !.rates = StoredRates(m, m.interfaces, msg.info)]
      [] msg.type = "ErrorMsg" ->
             IF msg.err.Component = "Network"
             THEN [m EXCEPT !.hasError = TRUE,
                            !.errorMessage = msg.err.Message,
                            !.lastError = msg.err.Timestamp,
                            !.interfaces = <<>>,
                            !.previousData = <<>>,
                            !.rates = EmptyMap]
             ELSE m
      [] OTHER -> m

\* An Update whose successful sample, when an error is on display, measures
\* from the snapshot before the stored one.
NetworkModelUpdateStaleBaseline(m, msg, t) ==
    CASE msg.type = "NetworkUpdateMsg" ->
             [m EXCEPT !.hasError = FALSE,
                       !.errorMessage = "",
                       !.previousData = m.interfaces,
                       !.interfaces = msg.info,
                       !.lastUpdate = t,
                       !.rates = IF m.hasError
                                 THEN StoredRates(m, m.previousData, msg.info)
                                 ELSE StoredRates(m, m.interfaces, msg.info)]
      [] msg.type = "ErrorMsg" ->
             IF msg.err.Component = "Network"
             THEN [m EXCEPT !.hasError = TRUE,
                            !.errorMessage = msg.err.Message,
                            !.lastError = msg.err.Timestamp]
             ELSE m
      [] OTHER -> m

\* t is time.Now() at the call.
NetworkModelUpdate(m, msg, t) ==
    CASE msg.type = "NetworkUpdateMsg" ->
             [m EXCEPT !.hasError = FALSE,
                       !.errorMessage = "",
                       !.previousData = m.interfaces,
                       !.interfaces = msg.info,
                       !.lastUpdate = t,
                       !.rates = StoredRates(m, m.interfaces, msg.info)]
      [] msg.type = "ErrorMsg" ->
             IF msg.err.Component = "Network"
             THEN [m EXCEPT !.hasError = TRUE,
                            !.errorMessage = msg.err.Message,
                            !.lastError = msg.err.Timestamp]
             ELSE m
      [] OTHER -> m

\* formatRate: <<printed value, unit>>, unit 0 = B/s, 1 = KB/s, 2 = MB/s,
\* 3 = GB/s.
formatRate(r) ==
    LET whole == r.n \div r.d
    IN  IF whole >= GB THEN <<Tenths(whole \div KB, MB), 3>>
        ELSE IF whole >= MB THEN <<Tenths(whole, MB), 2>>
        ELSE IF whole >= KB THEN <<(20 * r.n + KB * r.d) \div (2 * KB * r.d), 1>>
        ELSE IF r.n > 0 THEN <<(2 * r.n + r.d) \div (2 * r.d), 0>>
        ELSE <<0, 0>>

\* styleByActivityWithManager: the style chosen from the total rate.
styleByActivity(stats) ==
    LET n == stats.SendRate.n * stats.RecvRate.d + stats.RecvRate.n * stats.SendRate.d
        d == stats.SendRate.d * stats.RecvRate.d
    IN  IF n \div d >= 10 * MB THEN "critical"
        ELSE IF n \div d >= MB THEN "warning"
        ELSE IF n > 0 THEN "active"
        ELSE "muted"

RECURSIVE NetworkLines(_, _)
\* Two lines per interface: the rate line (N/A without a rate entry) and
\* the cumulative byte totals.
NetworkLines(ifaces, rates) ==
    IF ifaces = <<>> THEN <<>>
    ELSE LET iface == Head(ifaces)
             hasRates == iface.Interface \in DOMAIN rates
             stats == IF hasRates THEN rates[iface.Interface]
                      ELSE NetworkStats(ZeroRate, ZeroRate)
         IN  <<Line(styleByActivity(stats), iface.Interface,
                    IF hasRates
                    THEN formatRate(stats.SendRate) \o formatRate(stats.RecvRate)
                    ELSE <<>>),
               Line("muted", "total",
                    formatBytes(iface.BytesSent) \o formatBytes(iface.BytesRecv))>>
             \o NetworkLines(Tail(ifaces), rates)

NetworkModelView(m) ==
    IF m.hasError
    THEN ErrorView("Network Activity", m, "Network data unavailable",
                   "Interfaces: N/A", "Activity: N/A")
    ELSE IF Len(m.interfaces) = 0
    THEN RenderPlaceholder("Network Activity", "Loading network data...")
    ELSE PadTo(<<RenderHeader("Network Activity")>>
               \o NetworkLines(m.interfaces, m.rates), m.height)

NetworkModelSetSize(m, w, h) == [m EXCEPT !.width = w, !.height = h]

(***************************************************************************)
(* ui.MainModel                                                            *)
(***************************************************************************)
\* A key map whose Quit list also holds a key that is bound to nothing.
DefaultKeyMapQuitOnAnyKey ==
    [Up |-> {"up", "k"}, Down |-> {"down", "j"}, Left |-> {"left", "h"},
     Right |-> {"right", "l"}, Tab |-> {"tab"}, ShiftTab |-> {"shift+tab"},
     Quit |-> {"q", "ctrl+c", "x"}, Refresh |-> {"r"}, Help |-> {"?", "h"}]

DefaultKeyMap ==
    [Up |-> {"up", "k"}, Down |-> {"down", "j"}, Left |-> {"left", "h"},
     Right |-> {"right", "l"}, Tab |-> {"tab"}, ShiftTab |-> {"shift+tab"},
     Quit |-> {"q", "ctrl+c"}, Refresh |-> {"r"}, Help |-> {"?", "h"}]

\* The key strings the terminal may deliver: the bound ones and one that is
\* bound to nothing.
Keys == {"up", "k", "down", "j", "left", "h", "right", "l", "tab", "shift+tab",
         "q", "ctrl+c", "r", "?", "x"}

\* The terminal sizes a resize may report.
Sizes == {<<80, 24>>, <<60, 20>>}

\* A forward step that stops at the last panel.
nextFocusNoWrap(f) == IF f >= FocusNetwork THEN FocusNetwork ELSE f + 1

\* A backward step that stops at the first panel.
prevFocusNoWrap(f) == IF f <= FocusCPU THEN FocusCPU ELSE f - 1

\* A downward step that wraps from the bottom row to the top row.
downFocusWraps(f) ==
    CASE f = FocusCPU -> FocusDisk
      [] f = FocusMemory -> FocusNetwork
      [] f = FocusDisk -> FocusCPU
      [] f = FocusNetwork -> FocusMemory
      [] OTHER -> FocusCPU

nextFocus(f) ==
    CASE f = FocusCPU -> FocusMemory
      [] f = FocusMemory -> FocusDisk
      [] f = FocusDisk -> FocusNetwork
      [] f = FocusNetwork -> FocusCPU
      [] OTHER -> FocusCPU

prevFocus(f) ==
    CASE f = FocusCPU -> FocusNetwork
      [] f = FocusMemory -> FocusCPU
      [] f = FocusDisk -> FocusMemory
      [] f = FocusNetwork -> FocusDisk
      [] OTHER -> FocusCPU

downFocus(f) ==
    CASE f = FocusCPU -> FocusDisk
      [] f = FocusMemory -> FocusNetwork
      [] f = FocusDisk -> FocusDisk
      [] f = FocusNetwork -> FocusNetwork
      [] OTHER -> FocusCPU

upFocus(f) ==
    CASE f = FocusCPU -> FocusCPU
      [] f = FocusMemory -> FocusMemory
      [] f = FocusDisk -> FocusCPU
      [] f = FocusNetwork -> FocusMemory
      [] OTHER -> FocusCPU

\* A key switch whose Left case comes before its Help case.
KeyFocusLeftFirst(key, f) ==
    CASE key \in DefaultKeyMap.Quit -> f
      [] key \in DefaultKeyMap.Left -> prevFocus(f)
      [] key \in DefaultKeyMap.Help -> f
      [] key \in DefaultKeyMap.Refresh -> f
      [] key \in DefaultKeyMap.Tab -> nextFocus(f)
      [] key \in DefaultKeyMap.ShiftTab -> prevFocus(f)
      [] key \in DefaultKeyMap.Right -> nextFocus(f)
      [] key \in DefaultKeyMap.Down -> downFocus(f)
      [] key \in DefaultKeyMap.Up -> upFocus(f)
      [] OTHER -> f

\* The focus after a key press, following the order of the cases of the
\* key switch in Update.
KeyFocus(key, f) ==
    CASE key \in DefaultKeyMap.Quit -> f
      [] key \in DefaultKeyMap.Help -> f
      [] key \in DefaultKeyMap.Refresh -> f
      [] key \in DefaultKeyMap.Tab -> nextFocus(f)
      [] key \in DefaultKeyMap.ShiftTab -> prevFocus(f)
      [] key \in DefaultKeyMap.Right -> nextFocus(f)
      [] key \in DefaultKeyMap.Left -> prevFocus(f)
      [] key \in DefaultKeyMap.Down -> downFocus(f)
      [] key \in DefaultKeyMap.Up -> upFocus(f)
      [] OTHER -> f

\* Commands of resource r launched and not yet applied by Update.
InFlight(r) == running[r] + BagCardinality(msgs[r])

\* Room for one more sampling round.
CanLaunch == \A r \in Resources : InFlight(r) < MaxInFlight

\* A round that starts a command only for the resources that have none
\* running.
collectAllDataCmdIdleOnly(run) ==
    [r \in Resources |-> IF run[r] = 0 THEN 1 ELSE run[r]]

\* collectAllDataCmd: one collection command per resource starts running.
collectAllDataCmd(run) == [r \in Resources |-> run[r] + 1]

\* The component that an ErrorMsg is forwarded to, if any.
ErrorTarget(msg) ==
    IF msg.type = "ErrorMsg" /\ msg.err.Component \in Resources
    THEN msg.err.Component
    ELSE "none"

\* MainModel.Update(msg): the new model and the commands it returns
\* (collection commands start running, a tick command becomes pending).
\* timers is the number of tick commands pending besides the one that
\* delivered msg.
MainModelUpdate(msg, timers) ==
    /\ cpu' = IF msg.type = "CPUUpdateMsg" \/ ErrorTarget(msg) = "CPU"
              THEN CPUModelUpdate(cpu, msg)
              ELSE IF msg.type = "WindowSizeMsg"
              THEN CPUModelSetSize(cpu, GoDiv(msg.w - 3, 2), GoDiv(msg.h - 4, 2))
              ELSE cpu
    /\ memory' = IF msg.type = "MemoryUpdateMsg" \/ ErrorTarget(msg) = "Memory"
                 THEN MemoryModelUpdate(memory, msg)
                 ELSE IF msg.type = "WindowSizeMsg"
                 THEN MemoryModelSetSize(memory, GoDiv(msg.w - 3, 2), GoDiv(msg.h - 4, 2))
                 ELSE memory
    /\ disk' = IF msg.type = "DiskUpdateMsg" \/ ErrorTarget(msg) = "Disk"
               THEN DiskModelUpdate(disk, msg, now)
               ELSE IF msg.type = "WindowSizeMsg"
               THEN DiskModelSetSize(disk, GoDiv(msg.w - 3, 2), GoDiv(msg.h - 4, 2))
               ELSE disk
    /\ network' = IF msg.type = "NetworkUpdateMsg" \/ ErrorTarget(msg) = "Network"
                  THEN NetworkModelUpdate(network, msg, now)
                  ELSE IF msg.type = "WindowSizeMsg"
                  THEN NetworkModelSetSize(network, GoDiv(msg.w - 3, 2), GoDiv(msg.h - 4, 2))
                  ELSE network
    /\ width' = IF msg.type = "WindowSizeMsg" THEN msg.w ELSE width
    /\ height' = IF msg.type = "WindowSizeMsg" THEN msg.h ELSE height
    /\ quit' = (msg.type = "KeyMsg" /\ msg.key \in DefaultKeyMap.Quit)
    /\ showHelp' = IF /\ msg.type = "KeyMsg"
                      /\ msg.key \notin DefaultKeyMap.Quit
                      /\ msg.key \in DefaultKeyMap.Help
                   THEN ~showHelp
                   ELSE showHelp
    /\ focused' = IF msg.type = "KeyMsg" THEN KeyFocus(msg.key, focused) ELSE focused
    /\ running' = IF \/ msg.type = "TickMsg"
                     \/ /\ msg.type = "KeyMsg"
                        /\ msg.key \notin DefaultKeyMap.Quit \cup DefaultKeyMap.Help
                        /\ msg.key \in DefaultKeyMap.Refresh
                  THEN collectAllDataCmd(running)
                  ELSE running
    /\ ticks' = IF msg.type = "TickMsg" THEN timers + 1 ELSE timers

KeyMsg(key) == [Msg("KeyMsg", <<>>, NoError) EXCEPT !.key = key]

WindowSizeMsg(w, h) == [Msg("WindowSizeMsg", <<>>, NoError) EXCEPT !.w = w, !.h = h]

\* A tick message of a type the Update switch has no case for.
TickMsgUnhandled == Msg("tickMsg", <<>>, NoError)

TickMsg == Msg("TickMsg", <<>>, NoError)

\* The update message type of each resource.
UpdateMsgType(r) ==
    CASE r = "CPU" -> "CPUUpdateMsg"
      [] r = "Memory" -> "MemoryUpdateMsg"
      [] r = "Disk" -> "DiskUpdateMsg"
      [] OTHER -> "NetworkUpdateMsg"

(***************************************************************************)
(* services: what the collector may return.                                *)
(***************************************************************************)
\* The readings of the running program are a function of the time they are
\* taken at; it alternates between one core and two cores.
CPUReadings(t) ==
    {IF t % 2 = 0 THEN CPUInfo(1, <<10 + t>>, 10 + t, t)
     ELSE CPUInfo(2, <<90, 30 + t>>, 60, t)}

MemoryReadings(t) == {MemoryInfo(8, 4 + t, 4 - t, SwapInfo(2, 1, 1), t)}

DiskReadings(t) ==
    {IF t % 2 = 0
     THEN <<DiskInfo("/dev/sda1", "/", "ext4", 100, 50, 50, 50)>>
     ELSE <<DiskInfo("/dev/sda1", "/", "ext4", 100, 85, 15, 85),
            DiskInfo("/dev/sdb1", "/data", "ext4", 100, 95, 5, 95)>>}

\* Interface entries of one snapshot share the timestamp taken before the
\* loop of CollectNetwork; names are unique and keep the order of the
\* system's interface table.
NetworkEntries(name, counters, t) ==
    {NetworkInfo(name, c[1], c[2], t) : c \in counters}

NetworkLists(counters, t) ==
    {<<>>}
    \cup {<<e>> : e \in NetworkEntries("eth0", counters, t)}
    \cup {<<e>> : e \in NetworkEntries("wlan0", counters, t)}
    \cup {<<e, f>> : e \in NetworkEntries("eth0", counters, t),
                     f \in NetworkEntries("wlan0", counters, t)}

\* Counter pairs <<BytesSent, BytesRecv>>: every pair, and the two pairs
\* the running program and the reducer runs use.
AllCounters == (0..MaxCounter) \X (0..MaxCounter)

FewCounters == {<<1, MaxCounter>>, <<MaxCounter, 1>>}

\* CollectNetwork never returns an empty list without an error.
NetworkReadings(t) ==
    {IF t % 2 = 0
     THEN <<NetworkInfo("eth0", 1, MaxCounter, t)>>
     ELSE <<NetworkInfo("eth0", MaxCounter, 1, t), NetworkInfo("wlan0", t, t, t)>>}

RECURSIVE CollectorPrevMapFirstWins(_, _)
\* A lookup map that keeps the first of several entries of one interface.
CollectorPrevMapFirstWins(previous, prevMap) ==
    IF previous = <<>> THEN prevMap
    ELSE CollectorPrevMapFirstWins(Tail(previous),
             [x \in (DOMAIN prevMap) \cup {Head(previous).Interface} |->
                 IF x \in DOMAIN prevMap THEN prevMap[x] ELSE Head(previous)])

RECURSIVE CollectorPrevMap(_, _)
\* GopsutilCollector.CalculateNetworkRates: the lookup map of the previous
\* measurements.
CollectorPrevMap(previous, prevMap) ==
    IF previous = <<>> THEN prevMap
    ELSE CollectorPrevMap(Tail(previous),
             [x \in (DOMAIN prevMap) \cup {Head(previous).Interface} |->
                 IF x = Head(previous).Interface THEN Head(previous) ELSE prevMap[x]])

RECURSIVE CollectorRatesLoop(_, _, _)
\* GopsutilCollector.CalculateNetworkRates: the loop over current.
CollectorRatesLoop(prevMap, current, rates) ==
    IF current = <<>> THEN rates
    ELSE LET curr == Head(current)
             exists == curr.Interface \in DOMAIN prevMap
             timeDiff == IF exists
                         THEN curr.Timestamp - prevMap[curr.Interface].Timestamp
                         ELSE 0
             sendRate == IF curr.BytesSent >= prevMap[curr.Interface].BytesSent
                         THEN Quotient(curr.BytesSent - prevMap[curr.Interface].BytesSent,
                                       timeDiff)
                         ELSE ZeroRate
             recvRate == IF curr.BytesRecv >= prevMap[curr.Interface].BytesRecv
                         THEN Quotient(curr.BytesRecv - prevMap[curr.Interface].BytesRecv,
                                       timeDiff)
                         ELSE ZeroRate
         IN  CollectorRatesLoop(prevMap, Tail(current),
                 IF exists /\ timeDiff > 0
                 THEN MapPut(rates, curr.Interface, NetworkStats(sendRate, recvRate))
                 ELSE rates)

CalculateNetworkRates(previous, current) ==
    CollectorRatesLoop(CollectorPrevMap(previous, EmptyMap), current, EmptyMap)

\* What a collection command returns: the update message of the resource,
\* or the collector's error itself (a models.SystemError).
CollectResult(r, info, err) ==
    IF err # NoError
    THEN Msg("SystemError", <<>>, err)
    ELSE Msg(UpdateMsgType(r), info, NoError)

\* The error of a failed collection; the running program meets permission
\* errors.
CollectorErrors(r, t) ==
    {CreateSystemError("PermissionError", r, CollectorMessage(r, "PermissionError"), t)}

RECURSIVE SumOver(_, _)
SumOver(f, S) ==
    IF S = {} THEN 0
    ELSE LET x == CHOOSE y \in S : TRUE IN f[x] + SumOver(f, S \ {x})

\* Messages of finished commands not yet applied by Update.
Queued == SumOver([r \in Resources |-> BagCardinality(msgs[r])], Resources)

\* A command that finishes without handing over any message.
FinishWithoutMessage(r, m) ==
    /\ ~quit
    /\ running[r] > 0
    /\ running' = [running EXCEPT ![r] = @ - 1]
    /\ UNCHANGED <<modelVars, now, ticks, msgs, refreshes, auxVars>>

\* The command of resource r finishes and hands its message to the program.
Finish(r, m) ==
    /\ ~quit
    /\ running[r] > 0
    /\ Queued < MaxQueued
    /\ running' = [running EXCEPT ![r] = @ - 1]
    /\ msgs' = [msgs EXCEPT ![r] = @ (+) SetToBag({m})]
    /\ UNCHANGED <<modelVars, now, ticks, refreshes, auxVars>>

collectCPUDataCmd ==
    \/ \E info \in CPUReadings(now) : Finish("CPU", CollectResult("CPU", info, NoError))
    \/ \E err \in CollectorErrors("CPU", now) :
           Finish("CPU", CollectResult("CPU", CPUInfo(0, <<>>, 0, 0), err))

collectMemoryDataCmd ==
    \/ \E info \in MemoryReadings(now) :
           Finish("Memory", CollectResult("Memory", info, NoError))
    \/ \E err \in CollectorErrors("Memory", now) :
           Finish("Memory", CollectResult("Memory",
                                MemoryInfo(0, 0, 0, SwapInfo(0, 0, 0), 0), err))

collectDiskDataCmd ==
    \/ \E info \in DiskReadings(now) : Finish("Disk", CollectResult("Disk", info, NoError))
    \/ \E err \in CollectorErrors("Disk", now) :
           Finish("Disk", CollectResult("Disk", <<>>, err))

collectNetworkDataCmd ==
    \/ \E info \in NetworkReadings(now) :
           Finish("Network", CollectResult("Network", info, NoError))
    \/ \E err \in CollectorErrors("Network", now) :
           Finish("Network", CollectResult("Network", <<>>, err))

(***************************************************************************)
(* The event loop: one message at a time goes through MainModel.Update.    *)
(***************************************************************************)
\* A message produced by a collection command of resource r is applied.
Deliver(r, m) ==
    /\ ~quit
    /\ BagIn(m, msgs[r])
    /\ msgs' = [msgs EXCEPT ![r] = @ (-) SetToBag({m})]
    /\ MainModelUpdate(m, ticks)
    /\ UNCHANGED <<now, refreshes, auxVars>>

DeliverResult == \E r \in Resources : \E m \in BagToSet(msgs[r]) : Deliver(r, m)

\* The pending tick fires: an update interval has passed.
Tick ==
    /\ ~quit
    /\ ticks > 0
    /\ now < MaxTime
    /\ CanLaunch
    /\ now' = now + 1
    /\ MainModelUpdate(TickMsg, ticks - 1)
    /\ UNCHANGED <<msgs, refreshes, auxVars>>

KeyPress(key) ==
    /\ ~quit
    /\ key \in DefaultKeyMap.Refresh => refreshes < MaxRefresh /\ CanLaunch
    /\ refreshes' = IF key \in DefaultKeyMap.Refresh THEN refreshes + 1 ELSE refreshes
    /\ MainModelUpdate(KeyMsg(key), ticks)
    /\ UNCHANGED <<now, msgs, auxVars>>

\* The keys pressed while the sampling program runs: refresh, quit and a
\* key bound to nothing.
ProgramKeys == {"r", "q", "x"}

Key == \E key \in ProgramKeys : KeyPress(key)

NoArgs == [previous |-> <<>>, current |-> <<>>, done |-> TRUE]

\* No call of calculateRates under way, no event counted.
NoAux ==
    /\ args = NoArgs
    /\ out = EmptyMap
    /\ streak = [r \in Resources |-> 0]
    /\ wiped = [r \in Resources |-> 0]

\* NewMainModel, before any command is issued.
NewMainModel ==
    /\ cpu = NewCPUModel
    /\ memory = NewMemoryModel
    /\ disk = NewDiskModel
    /\ network = NewNetworkModel
    /\ focused = FocusCPU
    /\ showHelp = FALSE
    /\ width = 80
    /\ height = 24
    /\ quit = FALSE

\* NewMainModel and MainModel.Init: the first tick is scheduled and the
\* initial collection round is launched.
Init ==
    /\ NewMainModel
    /\ now = 0
    /\ ticks = 1
    /\ running = [r \in Resources |-> 1]
    /\ msgs = [r \in Resources |-> EmptyBag]
    /\ refreshes = 0
    /\ NoAux

Next ==
    \/ Tick
    \/ collectCPUDataCmd
    \/ collectMemoryDataCmd
    \/ collectDiskDataCmd
    \/ collectNetworkDataCmd
    \/ DeliverResult
    \/ Key

Spec == Init /\ [][Next]_vars

(***************************************************************************)
(* SpecUpdate: the reducer under a stream of sample and error events.      *)
(* Each event reaches MainModel.Update at a new instant; streak counts the *)
(* error events applied to a resource since its last successful sample and *)
(* wiped the count that its last successful sample cleared.                *)
(***************************************************************************)
\* The components named in the ErrorMsg commands of models.ErrorHandler and
\* the texts of the errors they wrap.
ErrorComponents == Resources \cup {"Render"}

ErrorTexts == {"permission denied", "timeout"}

\* HandlePermissionError / HandleTemporaryError: the ErrorMsg their command
\* returns.
HandlerErrorMsg(component, text, t) ==
    ErrorMsg(CreateSystemError(IF text = "timeout" THEN "TemporaryError"
                               ELSE "PermissionError", component, text, t))

\* The successful sample messages of resource r taken at time t.
SampleMsgs(r, t) ==
    {Msg(UpdateMsgType(r), info, NoError) :
        info \in CASE r = "CPU" -> CPUReadings(t)
                   [] r = "Memory" -> MemoryReadings(t)
                   [] r = "Disk" -> DiskReadings(t)
                   [] OTHER -> NetworkReadings(t)}

\* A message reaches Update at the instant now.
Send(m) ==
    /\ now < MaxEvents
    /\ now' = now + 1
    /\ MainModelUpdate(m, ticks)
    /\ UNCHANGED <<msgs, refreshes, args, out>>

UpdateSample(r) ==
    /\ \E m \in SampleMsgs(r, now) : Send(m)
    /\ streak' = [streak EXCEPT ![r] = 0]
    /\ wiped' = [wiped EXCEPT ![r] = streak[r]]

UpdateError(c, text) ==
    /\ Send(HandlerErrorMsg(c, text, now))
    /\ streak' = [r \in Resources |-> IF r = c THEN streak[r] + 1 ELSE streak[r]]
    /\ UNCHANGED wiped

SampleEvent == \E r \in Resources : UpdateSample(r)

ErrorEvent == \E c \in ErrorComponents, text \in ErrorTexts : UpdateError(c, text)

NextUpdate == SampleEvent \/ ErrorEvent

SpecUpdate == Init /\ [][NextUpdate]_vars

(***************************************************************************)
(* SpecNet: the network model under network samples that arrive in any     *)
(* order of their capture times, and network errors.  args remembers the   *)
(* last sample event (the snapshot stored before it and its payload), out  *)
(* the round before it: the interfaces that round saw for the first time   *)
(* and the keys of the rate map it stored.                                 *)
(***************************************************************************)
\* The interface names of a snapshot.
InterfaceNames(list) == {list[i].Interface : i \in 1..Len(list)}

\* The entry of a snapshot for an interface it names (names are unique).
EntryOf(list, name) == list[CHOOSE i \in 1..Len(list) : list[i].Interface = name]

NoRound == [first |-> {}, keys |-> {}]

NetSample(info) ==
    /\ MainModelUpdate(Msg("NetworkUpdateMsg", info, NoError), ticks)
    /\ out' = [first |-> InterfaceNames(network.interfaces)
                            \ InterfaceNames(network.previousData),
               keys |-> DOMAIN network.rates]
    /\ args' = [previous |-> network.interfaces, current |-> info, done |-> TRUE]
    /\ UNCHANGED <<now, msgs, refreshes, streak, wiped>>

NetError(t) ==
    /\ MainModelUpdate(HandlerErrorMsg("Network", "timeout", t), ticks)
    /\ UNCHANGED <<now, msgs, refreshes, auxVars>>

NetSampleEvent == \E t \in 0..MaxStamp : \E info \in NetworkLists(FewCounters, t) : NetSample(info)

NetErrorEvent == \E t \in 0..MaxStamp : NetError(t)

InitNet ==
    /\ NewMainModel
    /\ now = MaxStamp
    /\ ticks = 1
    /\ running = [r \in Resources |-> 1]
    /\ msgs = [r \in Resources |-> EmptyBag]
    /\ refreshes = 0
    /\ args = NoArgs
    /\ out = NoRound
    /\ streak = [r \in Resources |-> 0]
    /\ wiped = [r \in Resources |-> 0]

NextNet == NetSampleEvent \/ NetErrorEvent

SpecNet == InitNet /\ [][NextNet]_vars

(***************************************************************************)
(* SpecRates: one call of calculateRates on every pair of snapshots.       *)
(***************************************************************************)
\* The snapshots: eth0 with every counter pair, wlan0 with two.
RateLists(t) ==
    {<<>>}
    \cup {<<e>> : e \in NetworkEntries("eth0", AllCounters, t)}
    \cup {<<e>> : e \in NetworkEntries("wlan0", FewCounters, t)}
    \cup {<<e, f>> : e \in NetworkEntries("eth0", AllCounters, t),
                     f \in NetworkEntries("wlan0", FewCounters, t)}

AllRateLists == UNION {RateLists(t) : t \in 0..MaxStamp}

InitRates ==
    /\ NewMainModel
    /\ now = 0
    /\ ticks = 1
    /\ running = [r \in Resources |-> 1]
    /\ msgs = [r \in Resources |-> EmptyBag]
    /\ refreshes = 0
    /\ args \in [previous : AllRateLists, current : AllRateLists, done : {FALSE}]
    /\ out = EmptyMap
    /\ streak = [r \in Resources |-> 0]
    /\ wiped = [r \in Resources |-> 0]

Calculate ==
    /\ ~args.done
    /\ out' = calculateRates(args.previous, args.current)
    /\ args' = [args EXCEPT !.done = TRUE]
    /\ UNCHANGED <<progVars, streak, wiped>>

NextRates == Calculate

SpecRates == InitRates /\ [][NextRates]_vars

(***************************************************************************)
(* Properties.                                                             *)
(***************************************************************************)
\* The component model of a resource, before and after a step.
Comp(r) ==
    CASE r = "CPU" -> cpu
      [] r = "Memory" -> memory
      [] r = "Disk" -> disk
      [] OTHER -> network

CompNext(r) ==
    CASE r = "CPU" -> cpu'
      [] r = "Memory" -> memory'
      [] r = "Disk" -> disk'
      [] OTHER -> network'

\* C1: when the collection command of resource R fails, the message it
\* delivers to Update puts R's component into the error state, carrying the
\* error's message and timestamp.
C1_FailedSampleSetsError ==
    [][\A r \in Resources : \A m \in BagToSet(msgs[r]) :
          (m.type = "SystemError" /\ Deliver(r, m))
          => /\ CompNext(r).hasError
             /\ CompNext(r).errorMessage = m.err.Message
             /\ CompNext(r).lastError = m.err.Timestamp]_vars

\* Each component model alone, handed at this instant an ErrorMsg that names
\* another component, returns itself unchanged.
ForeignErrorsIgnored ==
    \A c \in ErrorComponents, text \in ErrorTexts :
        LET m == HandlerErrorMsg(c, text, now)
        IN  /\ c # "CPU" => CPUModelUpdate(cpu, m) = cpu
            /\ c # "Memory" => MemoryModelUpdate(memory, m) = memory
            /\ c # "Disk" => DiskModelUpdate(disk, m, now) = disk
            /\ c # "Network" => NetworkModelUpdate(network, m, now) = network

\* C2: an error event naming component c changes the state of no other
\* component, nor the focus, help flag, size or commands; one naming no
\* resource changes nothing; and every component model ignores the errors of
\* the others.
C2_ErrorChangesOnlyItsComponent ==
    [][/\ \A c \in ErrorComponents, text \in ErrorTexts :
              UpdateError(c, text)
              => /\ \A r \in Resources \ {c} : CompNext(r) = Comp(r)
                 /\ UNCHANGED <<focused, showHelp, width, height, quit, ticks, running>>
       /\ ForeignErrorsIgnored']_vars

\* Network is in error after its error event while CPU and Memory still hold
\* the data of their samples and no error.
C2_Witness ==
    /\ network.hasError
    /\ streak["Network"] >= 1
    /\ cpu.cores > 0 /\ ~cpu.hasError
    /\ memory.total > 0 /\ ~memory.hasError

\* The snapshot of message m is what component model c of resource r holds.
Installed(r, c, m) ==
    CASE r = "CPU" -> /\ c.usage = m.info.Usage
                      /\ c.total = m.info.Total
                      /\ c.cores = m.info.Cores
                      /\ c.lastUpdate = m.info.Timestamp
      [] r = "Memory" -> /\ c.total = m.info.Total
                         /\ c.used = m.info.Used
                         /\ c.available = m.info.Available
                         /\ c.swap = m.info.Swap
                         /\ c.lastUpdate = m.info.Timestamp
      [] r = "Disk" -> c.filesystems = m.info
      [] OTHER -> c.interfaces = m.info

\* C3: a successful sample event of a resource clears its error flag and
\* error message and installs the new snapshot, whatever the number of error
\* events before it.
C3_SuccessClearsError ==
    [][\A r \in Resources : \A m \in SampleMsgs(r, now) :
          Send(m)
          => /\ ~CompNext(r).hasError
             /\ CompNext(r).errorMessage = ""
             /\ Installed(r, CompNext(r), m)]_vars

\* A successful disk sample has just cleared two or more error events in a
\* row.
C3_Witness ==
    /\ wiped["Disk"] >= 2
    /\ streak["Disk"] = 0
    /\ ~disk.hasError
    /\ Len(disk.filesystems) > 0

\* The fallback display: header, error line with the stored message, the
\* unavailable line, two N/A lines, blank padding, and no number anywhere.
IsFallback(view, m) ==
    /\ Len(view) >= 5
    /\ view[1].kind = "header"
    /\ view[2].kind = "error" /\ view[2].text = m.errorMessage
    /\ view[3].kind = "unavailable"
    /\ view[4].kind = "na"
    /\ view[5].kind = "na"
    /\ \A i \in 6..Len(view) : view[i].kind = "blank"
    /\ \A i \in 1..Len(view) : view[i].vals = <<>>

\* C4: while the error flag of a resource is set its panel shows the
\* fallback display and none of the stored numbers.
C4_ErrorViewHidesData ==
    /\ cpu.hasError => IsFallback(CPUModelView(cpu), cpu)
    /\ memory.hasError => IsFallback(MemoryModelView(memory), memory)
    /\ disk.hasError => IsFallback(DiskModelView(disk), disk)
    /\ network.hasError => IsFallback(NetworkModelView(network), network)

\* Memory and CPU are in error while their last snapshots are still stored.
C4_Witness ==
    /\ memory.hasError /\ memory.total > 0
    /\ cpu.hasError /\ cpu.cores > 0

\* The interfaces named by both snapshots.
Shared(previous, current) == InterfaceNames(previous) \cap InterfaceNames(current)

\* The time between the two entries of an interface both snapshots name.
TimeDiff(previous, current, name) ==
    EntryOf(current, name).Timestamp - EntryOf(previous, name).Timestamp

\* Rate r is exactly delta / dt (dt > 0).
ExactRate(r, delta, dt) == r.d > 0 /\ r.n * dt = delta * r.d

\* Reading a Go map: the zero value for a missing key.
RateOf(rates, name) ==
    IF name \in DOMAIN rates THEN rates[name] ELSE NetworkStats(ZeroRate, ZeroRate)

\* C5: for every interface in both snapshots with dt > 0, a direction whose
\* counter did not decrease has the rate (current - previous) / dt exactly;
\* +1024 sent and +2048 received over 1 s give 1024 B/s and 2048 B/s.
C5_RateIsDeltaOverDt ==
    /\ args.done =>
         \A name \in Shared(args.previous, args.current) :
            LET p == EntryOf(args.previous, name)
                c == EntryOf(args.current, name)
                dt == TimeDiff(args.previous, args.current, name)
            IN  dt > 0 =>
                  /\ name \in DOMAIN out
                  /\ c.BytesSent >= p.BytesSent
                     => ExactRate(out[name].SendRate, c.BytesSent - p.BytesSent, dt)
                  /\ c.BytesRecv >= p.BytesRecv
                     => ExactRate(out[name].RecvRate, c.BytesRecv - p.BytesRecv, dt)
    /\ LET rates == calculateRates(<<NetworkInfo("eth0", 1000000, 2000000, 0)>>,
                                   <<NetworkInfo("eth0", 1001024, 2002048, 1)>>)
       IN  /\ DOMAIN rates = {"eth0"}
           /\ rates["eth0"] = NetworkStats([n |-> 1024, d |-> 1], [n |-> 2048, d |-> 1])

\* calculateRates has returned for two snapshots two intervals apart in which
\* an interface's sent counter grew by one byte: half a byte per interval.
C5_Witness ==
    /\ args.done
    /\ \E name \in Shared(args.previous, args.current) :
          /\ TimeDiff(args.previous, args.current, name) = 2
          /\ EntryOf(args.current, name).BytesSent
                = EntryOf(args.previous, name).BytesSent + 1
          /\ name \in DOMAIN out
          /\ out[name].SendRate = [n |-> 1, d |-> 2]

\* C6: a direction whose counter is lower than in the previous snapshot has
\* the rate 0 exactly, no rate is ever negative, and the other direction
\* keeps its own rate (current - previous) / dt when its counter grew.
C6_DecreasedCounterGivesZero ==
    args.done =>
      /\ \A name \in DOMAIN out :
            /\ out[name].SendRate.n >= 0 /\ out[name].SendRate.d > 0
            /\ out[name].RecvRate.n >= 0 /\ out[name].RecvRate.d > 0
      /\ \A name \in Shared(args.previous, args.current) :
            LET p == EntryOf(args.previous, name)
                c == EntryOf(args.current, name)
                dt == TimeDiff(args.previous, args.current, name)
                r == RateOf(out, name)
            IN  /\ c.BytesSent < p.BytesSent => r.SendRate = ZeroRate
                /\ c.BytesRecv < p.BytesRecv => r.RecvRate = ZeroRate
                /\ (dt > 0 /\ c.BytesSent < p.BytesSent /\ c.BytesRecv > p.BytesRecv)
                   => /\ r.RecvRate.n > 0
                      /\ ExactRate(r.RecvRate, c.BytesRecv - p.BytesRecv, dt)
                /\ (dt > 0 /\ c.BytesRecv < p.BytesRecv /\ c.BytesSent > p.BytesSent)
                   => /\ r.SendRate.n > 0
                      /\ ExactRate(r.SendRate, c.BytesSent - p.BytesSent, dt)

\* calculateRates has returned an entry for an interface whose sent counter
\* fell while its received counter grew.
C6_Witness ==
    /\ args.done
    /\ \E name \in DOMAIN out :
          /\ EntryOf(args.current, name).BytesSent
                < EntryOf(args.previous, name).BytesSent
          /\ EntryOf(args.current, name).BytesRecv
                > EntryOf(args.previous, name).BytesRecv
          /\ out[name].SendRate.n = 0
          /\ out[name].RecvRate.n > 0

\* The original wording of C7: the rate map has entries only for interfaces
\* of both snapshots, the first sample yields none, and an interface first
\* seen in one round has an entry in the next whenever it is still present.
C7_FirstSeenGetsEntryNextRound ==
    /\ DOMAIN network.rates
          \subseteq Shared(network.previousData, network.interfaces)
    /\ network.previousData = <<>> => network.rates = EmptyMap
    /\ \A name \in out.first :
          name \in InterfaceNames(network.interfaces)
          => name \in DOMAIN network.rates

\* C7: the rate map has entries only for interfaces named by both the
\* previous and the current snapshot, so none for an interface first seen in
\* the current one and none at all after the first sample; an interface first
\* seen in one round has an entry in the next if it is still present and the
\* time between its two entries is positive.
C7_RatesOnlyForSharedNames ==
    /\ DOMAIN network.rates
          \subseteq Shared(network.previousData, network.interfaces)
    /\ \A name \in InterfaceNames(network.interfaces)
                     \ InterfaceNames(network.previousData) :
          name \notin DOMAIN network.rates
    /\ network.previousData = <<>> => network.rates = EmptyMap
    /\ \A name \in out.first :
          (/\ name \in InterfaceNames(network.interfaces)
           /\ TimeDiff(network.previousData, network.interfaces, name) > 0)
          => name \in DOMAIN network.rates

\* wlan0 was first seen in the round before and has its entry now, while
\* eth0, first seen in this round, has none.
C7_Witness ==
    /\ "wlan0" \in out.first
    /\ "wlan0" \in DOMAIN network.rates
    /\ "eth0" \in InterfaceNames(network.interfaces)
                    \ InterfaceNames(network.previousData)
    /\ "eth0" \notin DOMAIN network.rates

\* C8: an interface whose two entries are zero or a negative time apart gets
\* no entry, from the model's calculateRates and from the collector's
\* CalculateNetworkRates alike, and every rate produced is finite and not
\* negative.
C8_NoEntryWithoutElapsedTime ==
    args.done =>
      LET collected == CalculateNetworkRates(args.previous, args.current)
      IN  /\ \A name \in Shared(args.previous, args.current) :
                TimeDiff(args.previous, args.current, name) <= 0
                => name \notin DOMAIN out /\ name \notin DOMAIN collected
          /\ \A name \in DOMAIN out :
                /\ TimeDiff(args.previous, args.current, name) > 0
                /\ out[name].SendRate.d > 0 /\ out[name].SendRate.n >= 0
                /\ out[name].RecvRate.d > 0 /\ out[name].RecvRate.n >= 0
          /\ \A name \in DOMAIN collected :
                /\ TimeDiff(args.previous, args.current, name) > 0
                /\ collected[name].SendRate.d > 0 /\ collected[name].SendRate.n >= 0
                /\ collected[name].RecvRate.d > 0 /\ collected[name].RecvRate.n >= 0

\* calculateRates has returned an empty map for two snapshots taken at the
\* same instant, the current one naming two interfaces, one of them with a
\* sent counter above the previous one.
C8_Witness ==
    /\ args.done
    /\ \E name \in Shared(args.previous, args.current) :
          /\ TimeDiff(args.previous, args.current, name) = 0
          /\ EntryOf(args.current, name).BytesSent
                > EntryOf(args.previous, name).BytesSent
          /\ name \notin DOMAIN out
    /\ out = EmptyMap
    /\ Len(args.current) = 2

\* C9: a successful network sample stores the rates computed between the
\* snapshot held before the event and the new one, and then the new snapshot
\* as current with the old one as its predecessor; so consecutive samples s1,
\* s2, s3 leave the rates of (s1, s2) and then of (s2, s3).  The payload of a
\* sample step is the one the step records in args.
C9_RatesFromStoredSnapshot ==
    [][LET info == args'.current
       IN  NetSample(info)
           => /\ network'.rates = calculateRates(network.interfaces, info)
              /\ network'.previousData = network.interfaces
              /\ network'.interfaces = info]_vars

\* The third or a later consecutive sample: the round before stored rates,
\* and this round stored a rate above zero between its two snapshots.
C9_Witness ==
    /\ out.keys # {}
    /\ Len(network.previousData) > 0
    /\ \E name \in DOMAIN network.rates :
          /\ network.rates[name].SendRate.n > 0
          /\ TimeDiff(network.previousData, network.interfaces, name) > 0

\* C10: the stored rate map is what the stored snapshot and its immediate
\* predecessor give and nothing else, and each of its keys names an interface
\* of the current snapshot.
C10_RatesSupersededEveryRound ==
    /\ network.rates = calculateRates(network.previousData, network.interfaces)
    /\ DOMAIN network.rates \subseteq InterfaceNames(network.interfaces)

\* The round before had a rate entry for an interface that has disappeared
\* from the current snapshot (one case with interfaces left, one with an
\* empty list), and the entry is gone.
C10_Witness ==
    /\ \E name \in out.keys :
          /\ name \notin InterfaceNames(network.interfaces)
          /\ name \notin DOMAIN network.rates
    /\ \/ network.rates # EmptyMap
       \/ network.interfaces = <<>>

(***************************************************************************)
(* SpecTicks: the ticker and the collection commands with no limit on the  *)
(* commands in flight other than the number of ticks.  The memory and disk *)
(* collectors are slow and do not return within the run; an ErrorMsg for   *)
(* Disk comes from a command of models.ErrorHandler.                       *)
(***************************************************************************)
\* The ticks that fire.
MaxRounds == 1

\* The pending tick fires, whatever is in flight.
TickFires ==
    /\ ~quit
    /\ ticks > 0
    /\ now < MaxRounds
    /\ now' = now + 1
    /\ MainModelUpdate(TickMsg, ticks - 1)
    /\ UNCHANGED <<msgs, refreshes, auxVars>>

\* A command of the error handler delivers its ErrorMsg.
HandlerError(c) ==
    /\ ~quit
    /\ MainModelUpdate(HandlerErrorMsg(c, "timeout", now), ticks)
    /\ UNCHANGED <<now, msgs, refreshes, auxVars>>

HandlerErrorEvent == HandlerError("Disk")

NextTicks ==
    \/ TickFires
    \/ collectCPUDataCmd
    \/ collectNetworkDataCmd
    \/ DeliverResult
    \/ HandlerErrorEvent

SpecTicks == Init /\ [][NextTicks]_vars

\* C11: a tick event starts one more collection command for each of the four
\* resources and leaves exactly one tick pending, in every state it arrives
\* in, and changes nothing else.
C11_TickLaunchesFourAndOneTick ==
    [][TickFires
       => /\ \A r \in Resources : running'[r] = running[r] + 1
          /\ ticks' = 1
          /\ UNCHANGED <<cpu, memory, disk, network, msgs, focused, showHelp,
                         width, height, quit>>]_vars

\* The last tick arrived while Disk was in error and every disk command
\* launched before was still running: one more runs now, and one tick is
\* pending.
C11_Witness ==
    /\ now >= 1
    /\ disk.hasError /\ disk.lastError < now
    /\ running["Disk"] = now + 1
    /\ ticks = 1

(***************************************************************************)
(* SpecStuck: the disk collector never returns.  out counts the results    *)
(* that Update has applied for each resource.  The timer fires, a running  *)
(* collector of the other resources returns and the event loop hands a     *)
(* waiting message to Update, each eventually (weak fairness).             *)
(***************************************************************************)
\* The event loop waits until every command of the batch has returned
\* before it hands a result to Update.
AppliedWhenBatchComplete(r, m) ==
    /\ ~quit
    /\ \A q \in Resources : running[q] = 0
    /\ BagIn(m, msgs[r])
    /\ msgs' = [msgs EXCEPT ![r] = @ (-) SetToBag({m})]
    /\ MainModelUpdate(m, ticks)
    /\ out' = [out EXCEPT ![r] = @ + 1]
    /\ UNCHANGED <<now, refreshes, args, streak, wiped>>

\* A message produced by a collection command of resource r is applied and
\* counted.
Applied(r, m) ==
    /\ ~quit
    /\ BagIn(m, msgs[r])
    /\ msgs' = [msgs EXCEPT ![r] = @ (-) SetToBag({m})]
    /\ MainModelUpdate(m, ticks)
    /\ out' = [out EXCEPT ![r] = @ + 1]
    /\ UNCHANGED <<now, refreshes, args, streak, wiped>>

AppliedResult == \E r \in Resources : \E m \in BagToSet(msgs[r]) : Applied(r, m)

InitStuck ==
    /\ NewMainModel
    /\ now = 0
    /\ ticks = 1
    /\ running = [r \in Resources |-> 1]
    /\ msgs = [r \in Resources |-> EmptyBag]
    /\ refreshes = 0
    /\ args = NoArgs
    /\ out = [r \in Resources |-> 0]
    /\ streak = [r \in Resources |-> 0]
    /\ wiped = [r \in Resources |-> 0]

NextStuck ==
    \/ TickFires
    \/ collectCPUDataCmd
    \/ collectMemoryDataCmd
    \/ collectNetworkDataCmd
    \/ AppliedResult

SpecStuck ==
    /\ InitStuck
    /\ [][NextStuck]_vars
    /\ WF_vars(TickFires)
    /\ WF_vars(collectCPUDataCmd)
    /\ WF_vars(collectMemoryDataCmd)
    /\ WF_vars(collectNetworkDataCmd)
    /\ WF_vars(AppliedResult)

\* C12: with the disk collector stuck, every tick still fires with one tick
\* always pending, and each of the other three resources has the result of
\* every round applied in the end; only Disk stays without data, its
\* commands all still running.
C12_StuckCollectorDelaysOnlyItself ==
    /\ [](/\ ticks = 1
          /\ running["Disk"] = now + 1
          /\ out["Disk"] = 0
          /\ disk = NewDiskModel)
    /\ <>[](/\ now = MaxRounds
            /\ \A r \in Resources \ {"Disk"} :
                  running[r] = 0 /\ out[r] = MaxRounds + 1)

\* Every tick has fired, CPU, Memory and Network hold data and have had the
\* result of every round applied, and every disk command is still running.
C12_Witness ==
    /\ now = MaxRounds
    /\ \A r \in Resources \ {"Disk"} : out[r] = MaxRounds + 1
    /\ cpu.cores > 0 /\ memory.total > 0 /\ Len(network.interfaces) > 0
    /\ running["Disk"] = MaxRounds + 1
    /\ Len(disk.filesystems) = 0

\* m is a result of a collection of resource r: its update message, or the
\* collector's error for r.
IsResultOf(r, m) ==
    \/ m.type = UpdateMsgType(r) /\ m.err = NoError
    \/ m.type = "SystemError" /\ m.err # NoError /\ m.err.Component = r

\* C13: every command launched for a resource (one at start and one per
\* tick) is running, has its one result waiting, or has had it applied; a
\* command that returns adds exactly one message, a result of its resource,
\* and an application consumes exactly one.
C13_OneResultPerCommand ==
    [][/\ \A r \in Resources :
             now' + 1 = running'[r] + BagCardinality(msgs'[r]) + out'[r]
       /\ \A r \in Resources :
             running'[r] < running[r]
             => /\ running'[r] = running[r] - 1
                /\ \E m \in BagToSet(msgs'[r]) :
                      /\ msgs'[r] = msgs[r] (+) SetToBag({m})
                      /\ IsResultOf(r, m)
                /\ \A q \in Resources \ {r} :
                      msgs'[q] = msgs[q] /\ running'[q] = running[q]
                /\ out' = out
       /\ \A r \in Resources :
             out'[r] # out[r]
             => /\ out'[r] = out[r] + 1
                /\ \E m \in BagToSet(msgs[r]) :
                      msgs'[r] = msgs[r] (-) SetToBag({m})]_vars

\* A failed network collection has handed over its error, which waits for
\* Update, after a CPU result was applied.
C13_Witness ==
    /\ \E m \in BagToSet(msgs["Network"]) :
          m.type = "SystemError" /\ m.err.Component = "Network"
    /\ out["CPU"] >= 1
    /\ cpu.cores > 0

\* C14: whatever the order in which results are applied, an applied result
\* of resource r decides r alone: a success installs its payload and clears
\* the error status, a failure sets the error status with the failure's
\* message, and no other resource changes.
C14_LastAppliedResultWins ==
    [][\A r \in Resources : \A m \in BagToSet(msgs[r]) :
          Applied(r, m)
          => /\ m.type = UpdateMsgType(r)
                => Installed(r, CompNext(r), m) /\ ~CompNext(r).hasError
             /\ m.type = "SystemError"
                => /\ CompNext(r).hasError
                   /\ CompNext(r).errorMessage = m.err.Message
             /\ \A q \in Resources \ {r} : CompNext(q) = Comp(q)]_vars

(***************************************************************************)
(* SpecEvents: Update under every kind of event, in any order: the results *)
(* of the collection commands (samples and collector errors), ErrorMsg     *)
(* messages, ticks, key presses and resizes.  now counts the events.       *)
(***************************************************************************)
\* The events of a run.
MaxInputs == 3

\* The results a collection command of resource r may hand over at time t.
ResultMsgs(r, t) ==
    SampleMsgs(r, t)
    \cup {CollectResult(r, <<>>, err) : err \in CollectorErrors(r, t)}
    \cup {HandlerErrorMsg(r, "timeout", t)}

\* Message m reaches Update; timers tick commands stay pending besides the
\* one that delivered it.
Input(m, timers) ==
    /\ ~quit
    /\ now < MaxInputs
    /\ now' = now + 1
    /\ MainModelUpdate(m, timers)
    /\ UNCHANGED <<msgs, refreshes, auxVars>>

EventResult(r) == \E m \in ResultMsgs(r, now) : Input(m, ticks)

EventTick == ticks > 0 /\ Input(TickMsg, ticks - 1)

EventKey(key) == Input(KeyMsg(key), ticks)

EventResize(size) == Input(WindowSizeMsg(size[1], size[2]), ticks)

NextEvents ==
    \/ \E r \in Resources : EventResult(r)
    \/ EventTick
    \/ \E key \in Keys : EventKey(key)
    \/ \E size \in Sizes : EventResize(size)

SpecEvents == Init /\ [][NextEvents]_vars

\* The snapshot and status a component holds: all of it but its size.
DataOf(c) == [f \in (DOMAIN c) \ {"width", "height"} |-> c[f]]

\* C15: no event changes the data of more than one resource; a result event
\* of resource r changes no other component at all; tick, key and resize
\* events change no resource's snapshot or status.
C15_OneResourcePerEvent ==
    [][/\ Cardinality({r \in Resources :
                          DataOf(CompNext(r)) # DataOf(Comp(r))}) <= 1
       /\ \A r \in Resources :
             EventResult(r)
             => \A q \in Resources \ {r} : CompNext(q) = Comp(q)
       /\ (\/ EventTick
           \/ \E key \in Keys : EventKey(key)
           \/ \E size \in Sizes : EventResize(size))
          => \A r \in Resources : DataOf(CompNext(r)) = DataOf(Comp(r))]_vars

\* A resize to 60 x 20 has given the components their new size while CPU
\* and Memory keep the samples applied before it.
C15_Witness ==
    /\ width = 60 /\ height = 20
    /\ cpu.width = 28 /\ cpu.height = 8
    /\ cpu.cores > 0 /\ Len(cpu.usage) > 0
    /\ memory.total > 0 /\ memory.width = 28

(***************************************************************************)
(* SpecAlias: what a MainModel value shares with the values Update derives *)
(* from it.  A MainModel is copied by value, but its styleManager field is *)
(* a pointer and its cpu.history field a slice: the copies share the one   *)
(* StyleManager object and, once it is allocated, the one backing array of *)
(* the history.  out is the heap (those two objects); args holds the       *)
(* MainModel value the last event was applied to (its by-value fields) and *)
(* what that value reported before the event.                              *)
(***************************************************************************)
NewStyleManager == [width |-> 80, height |-> 24]

SetDimensions(s, w, h) == [s EXCEPT !.width = w, !.height = h]

\* <<componentWidth, componentHeight>>
CalculateComponentDimensions(s) ==
    LET componentWidth == GoDiv(s.width - 6, 2)
        componentHeight == GoDiv(s.height - 6, 2)
    IN  <<IF componentWidth < 30 THEN 30 ELSE componentWidth,
          IF componentHeight < 8 THEN 8 ELSE componentHeight>>

\* A threshold test that needs both dimensions to be small.
IsSmallTerminalBoth(s) == s.width < 80 /\ s.height < 24

IsSmallTerminal(s) == s.width < 80 \/ s.height < 24

\* The heap after Update has applied msg to a state whose history slice has
\* length historyLen: SetDimensions writes through the pointer; the history
\* loop writes the elements of the backing array, which is allocated anew
\* only while the slice is empty.
HeapAfter(heap, historyLen, msg) ==
    [styleManager |->
         IF msg.type = "WindowSizeMsg"
         THEN SetDimensions(heap.styleManager, msg.w, msg.h)
         ELSE heap.styleManager,
     history |->
         IF msg.type = "CPUUpdateMsg" /\ Len(msg.info.Usage) > 0
         THEN AddToHistory(IF historyLen = 0 THEN <<>> ELSE heap.history,
                           msg.info.Usage)
         ELSE heap.history]

\* The by-value fields of the current MainModel value that matter here.
StateValue == [width |-> width, height |-> height, historyLen |-> Len(cpu.history)]

\* What a MainModel value reports, read through the heap: its size fields,
\* the layout its View computes from the style manager, and its CPU
\* history.
Observe(value, heap) ==
    [width |-> value.width,
     height |-> value.height,
     layout |-> CalculateComponentDimensions(heap.styleManager),
     small |-> IsSmallTerminal(heap.styleManager),
     history |-> IF value.historyLen = 0 THEN <<>>
                 ELSE SubSeq(heap.history, 1, value.historyLen)]

AliasInput(m) ==
    /\ ~quit
    /\ now < MaxInputs
    /\ now' = now + 1
    /\ MainModelUpdate(m, ticks)
    /\ out' = HeapAfter(out, Len(cpu.history), m)
    /\ args' = [old |-> StateValue, reported |-> Observe(StateValue, out)]
    /\ UNCHANGED <<msgs, refreshes, streak, wiped>>

AliasResult == \E r \in Resources : \E m \in ResultMsgs(r, now) : AliasInput(m)

AliasResize == \E size \in Sizes : AliasInput(WindowSizeMsg(size[1], size[2]))

InitAlias ==
    /\ NewMainModel
    /\ now = 0
    /\ ticks = 1
    /\ running = [r \in Resources |-> 1]
    /\ msgs = [r \in Resources |-> EmptyBag]
    /\ refreshes = 0
    /\ out = [styleManager |-> NewStyleManager, history |-> <<>>]
    /\ args = [old |-> StateValue, reported |-> Observe(StateValue, out)]
    /\ streak = [r \in Resources |-> 0]
    /\ wiped = [r \in Resources |-> 0]

NextAlias == AliasResult \/ AliasResize

SpecAlias == InitAlias /\ [][NextAlias]_vars

\* C16: after an event, the state value it was applied to still reports
\* what it reported before: its width and height, the layout computed from
\* its style manager, and its CPU history.
C16_OldStateUnchanged == Observe(args.old, out) = args.reported

(***************************************************************************)
(* SpecKeys: the key switch of Update under sequences of key presses.  out *)
(* records the last press (the key, the focus and help flag it found, and  *)
(* the key pressed before it); args.run is the focus sequence of the       *)
(* current streak of forward presses (tab, right arrow), starting with the *)
(* focus the streak began at.                                              *)
(***************************************************************************)
MaxPresses == 5

Forward == {"tab", "right"}

Backward == {"shift+tab", "left"}

KeyPressEvent(key) ==
    /\ ~quit
    /\ now < MaxPresses
    /\ now' = now + 1
    /\ MainModelUpdate(KeyMsg(key), ticks)
    /\ out' = [key |-> key, from |-> focused, help |-> showHelp,
               previous |-> out.key]
    /\ args' = [run |-> IF key \in Forward
                        THEN Append(args.run, focused')
                        ELSE <<focused'>>]
    /\ UNCHANGED <<msgs, refreshes, streak, wiped>>

KeyPressed == \E key \in Keys : KeyPressEvent(key)

InitKeys ==
    /\ NewMainModel
    /\ now = 0
    /\ ticks = 1
    /\ running = [r \in Resources |-> 1]
    /\ msgs = [r \in Resources |-> EmptyBag]
    /\ refreshes = 0
    /\ out = [key |-> "none", from |-> focused, help |-> showHelp,
              previous |-> "none"]
    /\ args = [run |-> <<focused>>]
    /\ streak = [r \in Resources |-> 0]
    /\ wiped = [r \in Resources |-> 0]

NextKeys == KeyPressed

SpecKeys == InitKeys /\ [][NextKeys]_vars

\* C17: consecutive forward presses (tab or right arrow) walk the cycle
\* CPU, Memory, Disk, Network, CPU: each press moves to the next panel of
\* that cycle, the focus first returns after exactly four presses, and five
\* presses from CPU visit CPU, Memory, Disk, Network, CPU.
C17_ForwardCycleOfPeriodFour ==
    LET run == args.run
        succ == [f \in {FocusCPU, FocusMemory, FocusDisk, FocusNetwork} |->
                     CASE f = FocusCPU -> FocusMemory
                       [] f = FocusMemory -> FocusDisk
                       [] f = FocusDisk -> FocusNetwork
                       [] f = FocusNetwork -> FocusCPU]
    IN  /\ \A i \in 1..(Len(run) - 1) : run[i + 1] = succ[run[i]]
        /\ \A i \in 1..Len(run) : \A k \in 1..3 :
               i + k <= Len(run) => run[i + k] # run[i]
        /\ \A i \in 1..Len(run) : i + 4 <= Len(run) => run[i + 4] = run[i]
        /\ (Len(run) >= 5 /\ run[1] = FocusCPU) =>
               SubSeq(run, 1, 5) = <<FocusCPU, FocusMemory, FocusDisk,
                                     FocusNetwork, FocusCPU>>

\* Five forward presses from CPU have been made, the last one from Network.
C17_Witness ==
    /\ Len(args.run) = 5
    /\ args.run[1] = FocusCPU
    /\ out.key = "tab"
    /\ out.from = FocusNetwork
    /\ focused = FocusCPU

\* C18: a backward press (shift-tab or left arrow) undoes the forward press
\* made just before it and a forward press undoes the backward press made
\* just before it, whatever the focus; backward from CPU wraps to Network.
C18_BackwardInvertsForward ==
    [][/\ (now' = now + 1 /\ out.key \in Forward /\ out'.key \in Backward)
           => focused' = out.from
       /\ (now' = now + 1 /\ out.key \in Backward /\ out'.key \in Forward)
           => focused' = out.from
       /\ (now' = now + 1 /\ out'.key \in Backward /\ focused = FocusCPU)
           => focused' = FocusNetwork]_vars

\* A forward press wrapped from Network to CPU and the backward press after
\* it went back to Network.
C18_Witness ==
    /\ out.previous = "tab"
    /\ out.key = "left"
    /\ out.from = FocusCPU
    /\ focused = FocusNetwork

\* C19: down moves CPU to Disk and Memory to Network and leaves Disk and
\* Network where they are; up moves Disk to CPU and Network to Memory and
\* leaves CPU and Memory where they are.
C19_VerticalMovesClamp ==
    [][/\ (now' = now + 1 /\ out'.key = "down") =>
             focused' = CASE focused = FocusCPU -> FocusDisk
                          [] focused = FocusMemory -> FocusNetwork
                          [] focused = FocusDisk -> FocusDisk
                          [] focused = FocusNetwork -> FocusNetwork
       /\ (now' = now + 1 /\ out'.key = "up") =>
             focused' = CASE focused = FocusCPU -> FocusCPU
                          [] focused = FocusMemory -> FocusMemory
                          [] focused = FocusDisk -> FocusCPU
                          [] focused = FocusNetwork -> FocusMemory]_vars

\* Down was pressed on the bottom row and the focus stayed on Network.
C19_Witness ==
    /\ out.key = "down"
    /\ out.from = FocusNetwork
    /\ focused = FocusNetwork

\* C20: pressing h, j, k or l does what pressing left, down, up or right
\* does in the same state: the same focus afterwards and nothing else
\* changed.
C20_VimKeysNavigate ==
    [][\A pair \in {<<"h", "left">>, <<"j", "down">>, <<"k", "up">>,
                    <<"l", "right">>} :
           (now' = now + 1 /\ out'.key = pair[1]) =>
               /\ focused' = KeyFocus(pair[2], focused)
               /\ showHelp' = showHelp
               /\ UNCHANGED <<quit, running>>]_vars

\* C21: while the help screen is shown, any key press hides it.
C21_AnyKeyLeavesHelp ==
    [][(now' = now + 1 /\ showHelp) => ~showHelp']_vars

(***************************************************************************)
(* SpecReducer: MainModel.Update under every kind of event it handles:     *)
(* results of collection commands (samples, SystemError failures and       *)
(* ErrorMsg events), ticks, key presses and resizes.  Each event arrives   *)
(* at a new instant.  out records the last event applied (msg), the help   *)
(* flag it found (help) and the error of the event before it if that was   *)
(* an ErrorMsg (before).                                                   *)
(***************************************************************************)
MaxSteps == 3

\* The keys pressed in this specification: the help, refresh and quit keys,
\* one navigation key and one key bound to nothing.
ReducerKeys == {"?", "h", "r", "q", "ctrl+c", "tab", "x"}

\* The ErrorMsg events for resource r at time t.
ErrorEvents(r, t) == {HandlerErrorMsg(r, text, t) : text \in ErrorTexts}

Reduce(m, timers) ==
    /\ ~quit
    /\ now < MaxSteps
    /\ now' = now + 1
    /\ MainModelUpdate(m, timers)
    /\ out' = [msg |-> m, help |-> showHelp,
               before |-> IF out.msg.type = "ErrorMsg" THEN out.msg.err ELSE NoError]
    /\ UNCHANGED <<msgs, refreshes, args, streak, wiped>>

ReduceResult ==
    \E r \in Resources :
        \E m \in ResultMsgs(r, now) \cup ErrorEvents(r, now) : Reduce(m, ticks)

ReduceTick == ticks > 0 /\ Reduce(TickMsg, ticks - 1)

ReduceKey == \E key \in ReducerKeys : Reduce(KeyMsg(key), ticks)

ReduceResize == \E size \in Sizes : Reduce(WindowSizeMsg(size[1], size[2]), ticks)

InitReducer ==
    /\ NewMainModel
    /\ now = 0
    /\ ticks = 1
    /\ running = [r \in Resources |-> 1]
    /\ msgs = [r \in Resources |-> EmptyBag]
    /\ refreshes = 0
    /\ out = [msg |-> Msg("none", <<>>, NoError), help |-> FALSE, before |-> NoError]
    /\ args = NoArgs
    /\ streak = [r \in Resources |-> 0]
    /\ wiped = [r \in Resources |-> 0]

NextReducer == ReduceResult \/ ReduceTick \/ ReduceKey \/ ReduceResize

SpecReducer == InitReducer /\ [][NextReducer]_vars

\* The event applied by the step is a press of one of the given keys.
Pressed(keys) == now' = now + 1 /\ out'.msg.type = "KeyMsg" /\ out'.msg.key \in keys

\* The step leaves every component as it is, size included.
ComponentsUnchanged == UNCHANGED <<cpu, memory, disk, network>>

C24_QuitOnlyOnQuitKey ==
    [][/\ quit' <=> Pressed({"q", "ctrl+c"})
       /\ Pressed({"q", "ctrl+c"}) =>
              /\ ComponentsUnchanged
              /\ UNCHANGED <<focused, showHelp, width, height, running, ticks>>]_vars

\* ctrl+c was pressed with a sample applied and the program has quit.
C24_Witness ==
    /\ quit
    /\ out.msg.type = "KeyMsg" /\ out.msg.key = "ctrl+c"
    /\ cpu.cores > 0 \/ memory.total > 0

\* What a component stores of its samples: all of it but the error status.
StoredData(c) ==
    [f \in (DOMAIN c) \ {"hasError", "errorMessage", "lastError"} |-> c[f]]

\* The step applies an error event for resource r: an ErrorMsg naming r or
\* the SystemError of r's failed collection.
ErrorApplied(r) ==
    /\ now' = now + 1
    /\ out'.msg.type \in {"ErrorMsg", "SystemError"}
    /\ out'.msg.err.Component = r

\* C25: an error event for resource R leaves what R stores of its last
\* good sample as it was, for each of the four resources; for Network that
\* includes the previous snapshot and the rates.
C25_ErrorKeepsSnapshot ==
    [][\A r \in Resources :
           ErrorApplied(r) => StoredData(CompNext(r)) = StoredData(Comp(r))]_vars

\* After two network samples an ErrorMsg for Network has been applied: the
\* component is in error and still holds both snapshots and the rates.
C25_Witness ==
    /\ out.msg.type = "ErrorMsg"
    /\ network.hasError
    /\ Len(network.interfaces) > 0
    /\ Len(network.previousData) > 0
    /\ DOMAIN network.rates # {}

\* The error status of a component.
ErrorStatus(c) ==
    [hasError |-> c.hasError, errorMessage |-> c.errorMessage,
     lastError |-> c.lastError]

C27_ResizeStoresSizeOnly ==
    [][(now' = now + 1 /\ out'.msg.type = "WindowSizeMsg") =>
           /\ width' = out'.msg.w
           /\ height' = out'.msg.h
           /\ UNCHANGED <<focused, showHelp, quit, running, ticks>>
           /\ \A r \in Resources : DataOf(CompNext(r)) = DataOf(Comp(r))]_vars

\* A resize to 60 x 20 was applied to a state that holds a CPU sample and a
\* Disk error.
C27_Witness ==
    /\ out.msg.type = "WindowSizeMsg"
    /\ width = 60 /\ height = 20
    /\ cpu.cores > 0
    /\ disk.hasError

(***************************************************************************)
(* SpecLayout: the layout under resizes to any of a set of viewport sizes. *)
(* A WindowSizeMsg is applied by Update, which also sets the dimensions of *)
(* the style manager (out.styleManager); args holds what View then gets    *)
(* from the style manager: the layout it joins the panels in and the panel *)
(* size it hands to the four components.                                   *)
(***************************************************************************)
LayoutWidths == {0, 1, 29, 30, 59, 60, 65, 66, 67, 79, 80, 81, 120}

LayoutHeights == {0, 1, 8, 20, 21, 22, 23, 24, 25, 40}

\* Which of its two layouts RenderResponsiveLayout renders.
RenderResponsiveLayout(s) == IF IsSmallTerminal(s) THEN "Stacked" ELSE "Grid2x2"

\* What View takes from the style manager.
ViewLayout(s) ==
    [layout |-> RenderResponsiveLayout(s), size |-> CalculateComponentDimensions(s)]

LayoutResize(w, h) ==
    /\ MainModelUpdate(WindowSizeMsg(w, h), ticks)
    /\ out' = [styleManager |-> SetDimensions(out.styleManager, w, h)]
    /\ args' = ViewLayout(out'.styleManager)
    /\ UNCHANGED <<now, msgs, refreshes, streak, wiped>>

LayoutResized == \E w \in LayoutWidths, h \in LayoutHeights : LayoutResize(w, h)

InitLayout ==
    /\ NewMainModel
    /\ now = 0
    /\ ticks = 1
    /\ running = [r \in Resources |-> 1]
    /\ msgs = [r \in Resources |-> EmptyBag]
    /\ refreshes = 0
    /\ out = [styleManager |-> NewStyleManager]
    /\ args = ViewLayout(out.styleManager)
    /\ streak = [r \in Resources |-> 0]
    /\ wiped = [r \in Resources |-> 0]

NextLayout == LayoutResized

SpecLayout == InitLayout /\ [][NextLayout]_vars

\* C28: the layout is Stacked exactly when the width is below 80 or the
\* height below 24, and Grid2x2 otherwise; Stacked at 79 x 24, 80 x 23 and
\* 60 x 20, Grid2x2 at 80 x 24 and 120 x 40.
C28_StackedBelowThreshold ==
    /\ args.layout = "Stacked" <=> (width < 80 \/ height < 24)
    /\ args.layout = "Grid2x2" <=> (width >= 80 /\ height >= 24)
    /\ <<width, height>> \in {<<79, 24>>, <<80, 23>>, <<60, 20>>}
           => args.layout = "Stacked"
    /\ <<width, height>> \in {<<80, 24>>, <<120, 40>>}
           => args.layout = "Grid2x2"

\* After resizes the viewport is 80 x 23, one row short, and the layout is
\* stacked.
C28_Witness ==
    /\ width = 80 /\ height = 23
    /\ out.styleManager = [width |-> 80, height |-> 23]
    /\ args.layout = "Stacked"

\* C29: whatever the viewport size, down to 0 x 0 and after any resize,
\* the size given to the four panels is at least 30 columns by 8 rows, both
\* the size View takes from the style manager and the size the resize
\* handed to the components; above the floor the former is the viewport
\* less 6, halved.
C29_PanelSizeFloored ==
    /\ args.size[1] >= 30 /\ args.size[2] >= 8
    /\ args.size[1] > 30 => args.size[1] = GoDiv(width - 6, 2)
    /\ args.size[2] > 8 => args.size[2] = GoDiv(height - 6, 2)
    /\ \A r \in Resources : Comp(r).width >= 30 /\ Comp(r).height >= 8

(***************************************************************************)
(* SpecDisk: the usage thresholds of the disk component.  args.list is a   *)
(* disk sample whose filesystems have any of the percentages below (whole  *)
(* percents, the two thresholds and their neighbours included); the sample *)
(* is applied by Update and out holds what the component then reports: the *)
(* critical filesystems, those at or above 70 and each one's usage colour. *)
(***************************************************************************)
MaxFilesystems == 3

UsedPercents == {50, 69, 70, 85, 89, 90, 95}

Mountpoints == <<"/", "/home", "/var", "/data", "/srv">>

\* The disk samples of n filesystems.
DiskSamples(n) ==
    {[i \in 1..n |->
         DiskInfo("/dev/sda", Mountpoints[i], "ext4", 100, p[i], 100 - p[i], p[i])] :
     p \in [1..n -> UsedPercents]}

AllDiskSamples == UNION {DiskSamples(n) : n \in 1..MaxFilesystems}

\* A selection that takes only the filesystems above the threshold.
GetHighUsageFilesystemsStrict(m, threshold) ==
    SelectSeq(m.filesystems, LAMBDA fs : fs.UsedPercent > threshold)

GetHighUsageFilesystems(m, threshold) ==
    SelectSeq(m.filesystems, LAMBDA fs : fs.UsedPercent >= threshold)

GetCriticalFilesystems(m) == GetHighUsageFilesystems(m, 90)

GetUsageColor(percentage) ==
    CASE percentage >= 90 -> "Critical"
      [] percentage >= 70 -> "Warning"
      [] OTHER -> "Normal"

DiskSampleApplied ==
    /\ ~args.done
    /\ MainModelUpdate(Msg("DiskUpdateMsg", args.list, NoError), ticks)
    /\ out' = [critical |-> GetCriticalFilesystems(disk'),
               high |-> GetHighUsageFilesystems(disk', 70),
               colors |-> [i \in 1..Len(disk'.filesystems) |->
                              GetUsageColor(disk'.filesystems[i].UsedPercent)]]
    /\ args' = [args EXCEPT !.done = TRUE]
    /\ UNCHANGED <<now, msgs, refreshes, streak, wiped>>

InitDisk ==
    /\ NewMainModel
    /\ now = 0
    /\ ticks = 1
    /\ running = [r \in Resources |-> 1]
    /\ msgs = [r \in Resources |-> EmptyBag]
    /\ refreshes = 0
    /\ args \in [list : AllDiskSamples, done : {FALSE}]
    /\ out = [critical |-> <<>>, high |-> <<>>, colors |-> <<>>]
    /\ streak = [r \in Resources |-> 0]
    /\ wiped = [r \in Resources |-> 0]

NextDisk == DiskSampleApplied

SpecDisk == InitDisk /\ [][NextDisk]_vars

\* The mount points of a list of filesystems.
MountpointsOf(list) == {list[i].Mountpoint : i \in 1..Len(list)}

MaxPartitions == 3

SpecialFstypes == {"proc", "sysfs", "devtmpfs", "tmpfs", "devpts", "cgroup",
                   "cgroup2", "pstore", "bpf", "tracefs"}

\* The kinds of error the collector tells apart (isPermissionError,
\* isTemporaryError, anything else).
ErrorKinds == {"permission", "temporary", "other"}

Partition(i, fstype, usage) ==
    [Device |-> "/dev/sda", Mountpoint |-> Mountpoints[i], Fstype |-> fstype,
     usage |-> usage]

PartitionTables(n) ==
    {[i \in 1..n |-> Partition(i, c[i][1], c[i][2])] :
     c \in [1..n -> {"ext4", "tmpfs"} \X ({"ok"} \cup ErrorKinds)]}

AllPartitionTables == UNION {PartitionTables(n) : n \in 0..MaxPartitions}

\* The DiskInfo built from a partition whose usage query succeeded.
DiskInfoOf(p) == DiskInfo(p.Device, p.Mountpoint, p.Fstype, 100, 50, 50, 50)

\* The SystemError returned for an error of the given kind.
DiskError(kind, permissionText, temporaryText, otherType, otherText, t) ==
    CASE kind = "permission" ->
             CreateSystemError("PermissionError", "Disk", permissionText, t)
      [] kind = "temporary" ->
             CreateSystemError("TemporaryError", "Disk", temporaryText, t)
      [] OTHER -> CreateSystemError(otherType, "Disk", otherText, t)

RECURSIVE PartitionLoop(_, _, _)
\* The loop over the partitions: <<diskInfos, lastError>>.
PartitionLoop(partitions, diskInfos, lastError) ==
    IF partitions = <<>> THEN <<diskInfos, lastError>>
    ELSE LET p == Head(partitions)
         IN  IF p.Fstype \in SpecialFstypes
             THEN PartitionLoop(Tail(partitions), diskInfos, lastError)
             ELSE IF p.usage # "ok"
             THEN PartitionLoop(Tail(partitions), diskInfos, p.usage)
             ELSE PartitionLoop(Tail(partitions),
                                Append(diskInfos, DiskInfoOf(p)), lastError)

\* A collection that fails as soon as one usage query has failed.
CollectDiskAllOrNothing(partitionsErr, partitions, t) ==
    IF partitionsErr # "nil"
    THEN [infos |-> <<>>,
          err |-> DiskError(partitionsErr,
                            "Permission denied accessing disk partitions",
                            "Temporary error collecting disk partitions",
                            "SystemAccessError",
                            "Failed to collect disk partitions", t)]
    ELSE LET r == PartitionLoop(partitions, <<>>, "nil")
         IN  IF r[2] # "nil"
             THEN [infos |-> <<>>,
                   err |-> DiskError(r[2],
                                     "Permission denied accessing disk usage information",
                                     "Temporary error collecting disk usage",
                                     "DataCollectionError",
                                     "Failed to collect disk usage for any filesystem", t)]
             ELSE IF Len(r[1]) > 0
             THEN [infos |-> r[1], err |-> NoError]
             ELSE [infos |-> <<>>,
                   err |-> CreateSystemError("SystemAccessError", "Disk",
                                             "No accessible disk partitions found", t)]

\* CollectDisk: the list it returns and its error (NoError for nil).
CollectDisk(partitionsErr, partitions, t) ==
    IF partitionsErr # "nil"
    THEN [infos |-> <<>>,
          err |-> DiskError(partitionsErr,
                            "Permission denied accessing disk partitions",
                            "Temporary error collecting disk partitions",
                            "SystemAccessError",
                            "Failed to collect disk partitions", t)]
    ELSE LET r == PartitionLoop(partitions, <<>>, "nil")
         IN  IF Len(r[1]) > 0
             THEN [infos |-> r[1], err |-> NoError]
             ELSE IF r[2] # "nil"
             THEN [infos |-> <<>>,
                   err |-> DiskError(r[2],
                                     "Permission denied accessing disk usage information",
                                     "Temporary error collecting disk usage",
                                     "DataCollectionError",
                                     "Failed to collect disk usage for any filesystem", t)]
             ELSE [infos |-> <<>>,
                   err |-> CreateSystemError("SystemAccessError", "Disk",
                                             "No accessible disk partitions found", t)]

CollectDiskCalled ==
    /\ ~args.done
    /\ out' = CollectDisk(args.partitionsErr, args.partitions, now)
    /\ args' = [args EXCEPT !.done = TRUE]
    /\ UNCHANGED <<progVars, streak, wiped>>

InitCollectDisk ==
    /\ NewMainModel
    /\ now = 0
    /\ ticks = 1
    /\ running = [r \in Resources |-> 1]
    /\ msgs = [r \in Resources |-> EmptyBag]
    /\ refreshes = 0
    /\ args \in [partitionsErr : {"nil", "permission"},
                 partitions : AllPartitionTables, done : {FALSE}]
    /\ out = [infos |-> <<>>, err |-> NoError]
    /\ streak = [r \in Resources |-> 0]
    /\ wiped = [r \in Resources |-> 0]

NextCollectDisk == CollectDiskCalled

SpecCollectDisk == InitCollectDisk /\ [][NextCollectDisk]_vars

\* The positions of the eligible partitions whose usage query succeeded.
Succeeded(partitions) ==
    {i \in 1..Len(partitions) :
        partitions[i].Fstype \notin SpecialFstypes /\ partitions[i].usage = "ok"}

\* C31: when the partition table was read and at least one eligible mount's
\* usage query succeeded, CollectDisk returns no error and one entry for
\* each mount that succeeded, in table order, and none for the others; it
\* returns an error, and no entries, only when no mount yielded data.
C31_PartialDiskFailuresTolerated ==
    args.done =>
        LET ok == IF args.partitionsErr = "nil"
                  THEN Succeeded(args.partitions) ELSE {}
        IN  /\ ok # {} =>
                  /\ out.err = NoError
                  /\ Len(out.infos) = Cardinality(ok)
                  /\ {out.infos[i].Mountpoint : i \in 1..Len(out.infos)} =
                         {args.partitions[i].Mountpoint : i \in ok}
                  /\ \A i, j \in 1..Len(out.infos) :
                         i < j => \E a, b \in ok :
                                      /\ a < b
                                      /\ out.infos[i].Mountpoint = Mountpoints[a]
                                      /\ out.infos[j].Mountpoint = Mountpoints[b]
            /\ out.err # NoError <=> ok = {}
            /\ out.err # NoError => out.infos = <<>>

\* Of three eligible mounts the first and the last failed and the second
\* succeeded; CollectDisk returned the second alone, without error.
C31_Witness ==
    /\ args.done
    /\ args.partitionsErr = "nil"
    /\ Len(args.partitions) = 3
    /\ \A i \in 1..3 : args.partitions[i].Fstype = "ext4"
    /\ args.partitions[1].usage = "permission"
    /\ args.partitions[2].usage = "ok"
    /\ args.partitions[3].usage = "other"
    /\ out.err = NoError
    /\ Len(out.infos) = 1
    /\ out.infos[1].Mountpoint = "/home"

(***************************************************************************)
(* SpecMain: the process, from main's first statement to its exit.  args   *)
(* is the configuration parsed from the command line and whether the log   *)
(* file can be opened.  out is the process: pc is main's position, exit    *)
(* its exit code (-1 while it runs), stderr what it wrote to standard      *)
(* error, logFile the log file ("nil", "open" or "closed"), program the UI *)
(* program, result what the run goroutine put on resultChan, signal        *)
(* whether a signal waits on sigChan, gs the position of main and of the   *)
(* shutdown goroutine inside gracefulShutdown, after where main goes once  *)
(* its gracefulShutdown returns; calls, overlap, closes and lateWrites     *)
(* record the calls of gracefulShutdown, whether two of them ran at once,  *)
(* the Close calls on the log file and the writes to it after a Close.     *)
(* ticks and running are the tick and collection commands issued by the UI *)
(* program, none before it runs.                                           *)
(***************************************************************************)
Configs ==
    [LogFile : {"", "app.log"}, Debug : BOOLEAN, Version : BOOLEAN,
     openFails : BOOLEAN]

\* A setupLogging that carries on without a log file when it cannot be
\* opened.
setupLoggingIgnoresError(config) ==
    IF config.LogFile = "" /\ ~config.Debug
    THEN [logFile |-> "nil", err |-> FALSE, written |-> 0]
    ELSE [logFile |-> IF config.LogFile # "" /\ ~config.openFails
                      THEN "open" ELSE "nil",
          err |-> FALSE,
          written |-> IF config.Debug THEN 1 ELSE 0]

\* setupLogging: the file it returns, whether it returns an error, and the
\* lines it logs.
setupLogging(config) ==
    IF config.LogFile = "" /\ ~config.Debug
    THEN [logFile |-> "nil", err |-> FALSE, written |-> 0]
    ELSE IF config.LogFile # "" /\ config.openFails
    THEN [logFile |-> "nil", err |-> TRUE, written |-> 0]
    ELSE [logFile |-> IF config.LogFile # "" THEN "open" ELSE "nil",
          err |-> FALSE,
          written |-> IF config.Debug THEN 1 ELSE 0]

\* The process after log.Println: a line written to the log file after its
\* Close is counted.
LogPrintln(p) ==
    IF p.logFile = "closed" THEN [p EXCEPT !.lateWrites = @ + 1] ELSE p

\* log.Println under if config.Debug.
DebugPrintln(p) == IF args.Debug THEN LogPrintln(p) ELSE p

ShutdownSteps == {"log", "close", "kill"}

\* An executor enters gracefulShutdown.
EnterShutdown(p, who) ==
    [p EXCEPT !.gs[who] = "log",
              !.calls = @ + 1,
              !.overlap = @ \/ \E other \in DOMAIN p.gs \ {who} :
                                   p.gs[other] \in ShutdownSteps]

MainUnchanged == UNCHANGED <<modelVars, now, msgs, refreshes, args, streak, wiped>>

Running == out.exit = -1

ParseFlags ==
    /\ Running /\ out.pc = "parseFlags"
    /\ out' = IF args.Version
              THEN [out EXCEPT !.pc = "exited", !.exit = 0]
              ELSE [out EXCEPT !.pc = "setupLogging"]
    /\ UNCHANGED <<ticks, running>> /\ MainUnchanged

SetupLogging ==
    /\ Running /\ out.pc = "setupLogging"
    /\ LET r == setupLogging(args)
       IN  out' = IF r.err
                  THEN [out EXCEPT !.pc = "exited", !.exit = 1,
                                   !.stderr = Append(@, "Error setting up logging")]
                  ELSE [out EXCEPT !.pc = "createProgram", !.logFile = r.logFile]
    /\ UNCHANGED <<ticks, running>> /\ MainUnchanged

\* signal.Notify and createProgram.
CreateProgram ==
    /\ Running /\ out.pc = "createProgram"
    /\ out' = [out EXCEPT !.pc = "run", !.program = "created"]
    /\ UNCHANGED <<ticks, running>> /\ MainUnchanged

\* The goroutine calls program.Run: MainModel.Init schedules the first tick
\* and the first collection round.
ProgramRun ==
    /\ Running /\ out.pc = "run"
    /\ out' = [DebugPrintln(out) EXCEPT !.pc = "select", !.program = "running"]
    /\ ticks' = 1
    /\ running' = collectAllDataCmd(running)
    /\ MainUnchanged

\* program.Run returns, after a quit (nil) or with an error.
ProgramReturns ==
    /\ Running /\ out.program = "running"
    /\ \E err \in {"nil", "error"} :
           out' = [out EXCEPT !.program = "done", !.result = err]
    /\ UNCHANGED <<ticks, running>> /\ MainUnchanged

\* SIGINT or SIGTERM arrives once signal.Notify is in place.
SignalArrives ==
    /\ Running /\ out.pc \notin {"parseFlags", "setupLogging", "createProgram"}
    /\ ~out.signal
    /\ out' = [out EXCEPT !.signal = TRUE]
    /\ UNCHANGED <<ticks, running>> /\ MainUnchanged

\* case err := <-resultChan
SelectResult ==
    /\ Running /\ out.pc = "select" /\ out.result # "none"
    /\ out' = IF out.result = "error"
              THEN EnterShutdown([out EXCEPT !.pc = "gracefulShutdown",
                                             !.after = "exit",
                                             !.stderr = Append(@, "Error running program")],
                                 "main")
              ELSE [out EXCEPT !.pc = "final"]
    /\ UNCHANGED <<ticks, running>> /\ MainUnchanged

\* case sig := <-sigChan: the shutdown goroutine is started.
SelectSignal ==
    /\ Running /\ out.pc = "select" /\ out.signal
    /\ out' = EnterShutdown([DebugPrintln(out) EXCEPT !.pc = "wait"], "goroutine")
    /\ UNCHANGED <<ticks, running>> /\ MainUnchanged

\* One statement of gracefulShutdown, run by main or by the goroutine.
ShutdownStep(who) ==
    /\ Running /\ out.gs[who] \in ShutdownSteps
    /\ out' = CASE out.gs[who] = "log" ->
                       IF out.logFile = "nil"
                       THEN [out EXCEPT !.gs[who] = "kill"]
                       ELSE [LogPrintln(out) EXCEPT !.gs[who] = "close"]
                [] out.gs[who] = "close" ->
                       [out EXCEPT !.gs[who] = "kill", !.logFile = "closed",
                                   !.closes = @ + 1]
                [] OTHER ->
                       [out EXCEPT !.gs[who] = "done",
                                   !.program = IF @ = "running" THEN "done" ELSE @,
                                   !.result = IF out.program = "running"
                                              THEN "error" ELSE @]
    /\ UNCHANGED <<ticks, running>> /\ MainUnchanged

MainShutdownStep == out.pc = "gracefulShutdown" /\ ShutdownStep("main")

GoroutineShutdownStep == ShutdownStep("goroutine")

\* case <-done
WaitDone ==
    /\ Running /\ out.pc = "wait" /\ out.gs["goroutine"] = "done"
    /\ out' = [DebugPrintln(out) EXCEPT !.pc = "final"]
    /\ UNCHANGED <<ticks, running>> /\ MainUnchanged

\* case <-shutdownCtx.Done(): five seconds have passed.
WaitTimeout ==
    /\ Running /\ out.pc = "wait"
    /\ out' = [out EXCEPT !.pc = "final",
                          !.stderr = Append(@, "Shutdown timeout exceeded, forcing exit")]
    /\ UNCHANGED <<ticks, running>> /\ MainUnchanged

\* Final cleanup.
FinalCleanup ==
    /\ Running /\ out.pc = "final"
    /\ out' = EnterShutdown([out EXCEPT !.pc = "gracefulShutdown", !.after = "return"],
                            "main")
    /\ UNCHANGED <<ticks, running>> /\ MainUnchanged

\* gracefulShutdown returns to main: os.Exit(1) after a program error, else
\* the last log line and the return from main.
ShutdownReturns ==
    /\ Running /\ out.pc = "gracefulShutdown" /\ out.gs["main"] = "done"
    /\ out' = IF out.after = "exit"
              THEN [out EXCEPT !.pc = "exited", !.exit = 1, !.gs["main"] = "idle"]
              ELSE [DebugPrintln(out) EXCEPT !.pc = "exited", !.exit = 0,
                                             !.gs["main"] = "idle"]
    /\ UNCHANGED <<ticks, running>> /\ MainUnchanged

InitMain ==
    /\ NewMainModel
    /\ now = 0
    /\ ticks = 0
    /\ running = [r \in Resources |-> 0]
    /\ msgs = [r \in Resources |-> EmptyBag]
    /\ refreshes = 0
    /\ args \in Configs
    /\ out = [pc |-> "parseFlags", exit |-> -1, stderr |-> <<>>, logFile |-> "nil",
              program |-> "none", result |-> "none", signal |-> FALSE,
              gs |-> [main |-> "idle", goroutine |-> "idle"], after |-> "none",
              calls |-> 0, overlap |-> FALSE, closes |-> 0, lateWrites |-> 0]
    /\ streak = [r \in Resources |-> 0]
    /\ wiped = [r \in Resources |-> 0]

NextMain ==
    \/ ParseFlags
    \/ SetupLogging
    \/ CreateProgram
    \/ ProgramRun
    \/ ProgramReturns
    \/ SignalArrives
    \/ SelectResult
    \/ SelectSignal
    \/ MainShutdownStep
    \/ GoroutineShutdownStep
    \/ WaitDone
    \/ WaitTimeout
    \/ FinalCleanup
    \/ ShutdownReturns

SpecMain == InitMain /\ [][NextMain]_vars

\* C32: when the requested log file cannot be opened, main writes the error
\* to standard error and exits with code 1 straight from setupLogging: the
\* UI program is never created or run and no tick or collection command is
\* ever issued.
C32_LogFileErrorExitsBeforeUI ==
    (/\ args.LogFile # ""
     /\ args.openFails
     /\ out.pc \notin {"parseFlags", "setupLogging"}
     /\ ~args.Version)
    => /\ out.pc = "exited"
       /\ out.exit = 1
       /\ out.stderr = <<"Error setting up logging">>
       /\ out.program = "none"
       /\ out.calls = 0
       /\ ticks = 0
       /\ \A r \in Resources : running[r] = 0

\* The log file could not be opened and the process has exited with code 1.
C32_Witness ==
    /\ args.LogFile = "app.log"
    /\ args.openFails
    /\ out.pc = "exited"
    /\ out.exit = 1
    /\ Len(out.stderr) = 1
    /\ out.program = "none"

\* C38: on every termination path gracefulShutdown is called at most once
\* and never by two executors at the same time, so the log file is closed
\* at most once and nothing is written to it after it is closed.
C38_ShutdownRunsOnce ==
    /\ out.calls <= 1
    /\ ~out.overlap
    /\ out.closes <= 1
    /\ out.lateWrites = 0

\* C33: after a network sample has been applied, the network model's last
\* update time is the capture timestamp carried by the sample's entries.
C33_LastUpdateIsCaptureTime ==
    Len(args.current) > 0 =>
        \A i \in 1..Len(args.current) :
            network.lastUpdate = args.current[i].Timestamp

(***************************************************************************)
(* SpecHistory: the CPU usage history under long runs of CPU samples, long *)
(* enough for the history to be trimmed.  args.pattern fixes how many      *)
(* cores each sample of the run reports; args.log is the sequence of usage *)
(* lists applied so far; now counts the samples.                           *)
(***************************************************************************)
MaxSamples == 62

\* one or two cores throughout, a second core appearing after the first
\* sample, a second core disappearing after the first sample, and the two
\* alternating.
CorePatterns == {"one", "two", "grow", "shrink", "alternate"}

CoresAt(pattern, n) ==
    CASE pattern = "one" -> 1
      [] pattern = "two" -> 2
      [] pattern = "grow" -> IF n = 0 THEN 1 ELSE 2
      [] pattern = "shrink" -> IF n = 0 THEN 2 ELSE 1
      [] OTHER -> 1 + (n % 2)

\* The n-th sample of a run: every value it reports is different from all
\* values of the other samples.
HistoryReading(pattern, n) ==
    LET cores == CoresAt(pattern, n)
        usage == [i \in 1..cores |-> 2 * n + i]
    IN  CPUInfo(cores, usage, 2 * n + 1, n)

HistorySample ==
    /\ now < MaxSamples
    /\ LET info == HistoryReading(args.pattern, now)
       IN  /\ MainModelUpdate(Msg("CPUUpdateMsg", info, NoError), ticks)
           /\ args' = [args EXCEPT !.log = Append(@, info.Usage)]
    /\ now' = now + 1
    /\ UNCHANGED <<msgs, refreshes, out, streak, wiped>>

InitHistory ==
    /\ NewMainModel
    /\ now = 0
    /\ ticks = 1
    /\ running = [r \in Resources |-> 1]
    /\ msgs = [r \in Resources |-> EmptyBag]
    /\ refreshes = 0
    /\ args \in [pattern : CorePatterns, log : {<<>>}]
    /\ out = EmptyMap
    /\ streak = [r \in Resources |-> 0]
    /\ wiped = [r \in Resources |-> 0]

NextHistory == HistorySample

SpecHistory == InitHistory /\ [][NextHistory]_vars

\* The positions in the log of the samples that reported core i.
ReportedAt(log, i) == {k \in 1..Len(log) : Len(log[k]) >= i}

\* The r-th smallest element of a set of numbers.
Nth(S, r) == CHOOSE k \in S : Cardinality({x \in S : x <= k}) = r

\* C34: each series of the CPU history holds at most maxHistory values, and
\* they are the most recent values reported for its core, in the order they
\* arrived.
C34_HistoryIsRecentWindow ==
    \A i \in 1..Len(cpu.history) :
        LET h == cpu.history[i]
            at == ReportedAt(args.log, i)
            m == Cardinality(at)
        IN  /\ Len(h) <= maxHistory
            /\ Len(h) = IF m < maxHistory THEN m ELSE maxHistory
            /\ \A j \in 1..Len(h) :
                   h[j] = args.log[Nth(at, m - Len(h) + j)][i]

\* More than maxHistory samples of two cores have been applied: both series
\* are full and the oldest values have been dropped.
C34_Witness ==
    /\ args.pattern = "two"
    /\ now > maxHistory + 1
    /\ Len(cpu.history) = 2
    /\ Len(cpu.history[1]) = maxHistory
    /\ Len(cpu.history[2]) = maxHistory
    /\ cpu.history[1][1] = 2 * (now - maxHistory) + 1
    /\ cpu.history[2][maxHistory] = 2 * (now - 1) + 2

\* C40: once CPU samples have been applied, the history holds exactly one
\* series per core of the latest sample.
C40_OneSeriesPerCore ==
    Len(args.log) > 0 =>
        /\ Len(cpu.history) = Len(cpu.usage)
        /\ Len(cpu.history) = cpu.cores

\* C35: from Init until quit, whatever results, error events, ticks, key
\* presses and resizes have been applied, exactly one tick command is
\* pending.
C35_ExactlyOneTickPending == ~quit => ticks = 1

\* A tick was the last of MaxSteps events, among them a manual refresh: it
\* started a collection round and one tick is pending again.
C35_Witness ==
    /\ now = MaxSteps
    /\ out.msg.type = "TickMsg"
    /\ ticks = 1
    /\ \A r \in Resources : running[r] >= 3

\* ---------------------------------------------------------------------------
\* Network samples and Network error events in any order (SpecBaseline).
\* The samples carry any capture time of 0..MaxStamp, so they can arrive out
\* of order.  Here args is the history of the applied samples: s2 the last
\* one, s1 the one before it, rounds how many were applied (counted up to 3),
\* errors the number of Network error events applied between s1 and s2, and
\* late whether s1 was itself not later than its predecessor for an interface
\* they shared; streak["Network"] counts the error events since s2.
\* ---------------------------------------------------------------------------

MaxErrors == 2

\* The samples of this specification: eth0 alone or with wlan0.
BaselineLists(t) ==
    {<<e>> : e \in NetworkEntries("eth0", FewCounters, t)}
    \cup {<<e, f>> : e \in NetworkEntries("eth0", FewCounters, t),
                     f \in NetworkEntries("wlan0", FewCounters, t)}

\* Some interface of both lists has a capture time in current that is not
\* later than the one in previous.
OutOfOrder(previous, current) ==
    \E name \in Shared(previous, current) :
        TimeDiff(previous, current, name) <= 0

NoSamples == [s1 |-> <<>>, s2 |-> <<>>, rounds |-> 0, errors |-> 0, late |-> FALSE]

BaselineSample(info) ==
    /\ MainModelUpdate(Msg("NetworkUpdateMsg", info, NoError), ticks)
    /\ args' = [s1 |-> args.s2, s2 |-> info,
                rounds |-> IF args.rounds < 3 THEN args.rounds + 1 ELSE 3,
                errors |-> streak["Network"],
                late |-> OutOfOrder(args.s1, args.s2)]
    /\ streak' = [streak EXCEPT !["Network"] = 0]
    /\ UNCHANGED <<now, msgs, refreshes, out, wiped>>

BaselineSampleEvent ==
    \E t \in 0..MaxStamp : \E info \in BaselineLists(t) : BaselineSample(info)

BaselineError ==
    /\ streak["Network"] < MaxErrors
    /\ MainModelUpdate(HandlerErrorMsg("Network", "timeout", now), ticks)
    /\ streak' = [streak EXCEPT !["Network"] = @ + 1]
    /\ UNCHANGED <<now, msgs, refreshes, args, out, wiped>>

InitBaseline ==
    /\ NewMainModel
    /\ now = MaxStamp
    /\ ticks = 1
    /\ running = [r \in Resources |-> 1]
    /\ msgs = [r \in Resources |-> EmptyBag]
    /\ refreshes = 0
    /\ args = NoSamples
    /\ out = NoRound
    /\ streak = [r \in Resources |-> 0]
    /\ wiped = [r \in Resources |-> 0]

NextBaseline == BaselineSampleEvent \/ BaselineError

SpecBaseline == InitBaseline /\ [][NextBaseline]_vars

\* C36: Network error events do not disturb the rate baseline: once two
\* samples s1 and s2 have been applied, with any number of Network error
\* events between them, the stored rates are those between s1 and s2, each
\* over the full time from s1's capture to s2's.
C36_ErrorsKeepBaseline ==
    args.rounds >= 2 =>
      /\ network.rates = calculateRates(args.s1, args.s2)
      /\ \A name \in DOMAIN network.rates :
            LET p == EntryOf(args.s1, name)
                c == EntryOf(args.s2, name)
                dt == c.Timestamp - p.Timestamp
            IN  /\ dt > 0
                /\ c.BytesSent >= p.BytesSent
                   => ExactRate(network.rates[name].SendRate,
                                c.BytesSent - p.BytesSent, dt)
                /\ c.BytesRecv >= p.BytesRecv
                   => ExactRate(network.rates[name].RecvRate,
                                c.BytesRecv - p.BytesRecv, dt)

\* Two samples two time units apart with MaxErrors Network error events
\* between them: the sent counter grew by one byte, the stored rate is half a
\* byte per unit, and the error has been cleared.
C36_Witness ==
    /\ args.rounds >= 3
    /\ args.errors = MaxErrors
    /\ ~network.hasError
    /\ network.lastError = MaxStamp
    /\ "eth0" \in DOMAIN network.rates
    /\ TimeDiff(args.s1, args.s2, "eth0") = 2
    /\ network.rates["eth0"].SendRate = [n |-> 1, d |-> 2]

\* C37: a sample whose capture time is not later than the stored snapshot's
\* gives the interfaces concerned no rate entry in that round and nobody a
\* negative rate; it becomes the stored current snapshot, and the round after
\* it measures from it.
C37_LateSampleGivesNoRate ==
    /\ args.rounds >= 1 => network.interfaces = args.s2
    /\ args.rounds >= 2 =>
         /\ network.previousData = args.s1
         /\ \A name \in Shared(args.s1, args.s2) :
               TimeDiff(args.s1, args.s2, name) <= 0
               => name \notin DOMAIN network.rates
         /\ \A name \in DOMAIN network.rates :
               /\ network.rates[name].SendRate.n >= 0
               /\ network.rates[name].SendRate.d > 0
               /\ network.rates[name].RecvRate.n >= 0
               /\ network.rates[name].RecvRate.d > 0
               /\ TimeDiff(args.s1, args.s2, name) > 0
         /\ args.late => network.rates = calculateRates(args.s1, args.s2)

\* A sample captured before the stored one, with a higher sent counter, has
\* been applied after a round that had stored rates: the rate map is empty
\* and the late sample is the stored snapshot.
C37_Witness ==
    /\ args.rounds >= 3
    /\ Len(args.s2) = 2
    /\ \A name \in Shared(args.s1, args.s2) :
          TimeDiff(args.s1, args.s2, name) < 0
    /\ EntryOf(args.s2, "eth0").BytesSent > EntryOf(args.s1, "eth0").BytesSent
    /\ network.rates = EmptyMap
    /\ network.interfaces = args.s2

\* ---------------------------------------------------------------------------
\* The two rate functions on the same arguments (SpecPairs).  The lists are
\* any lists of up to two entries, so that a list can name an interface twice
\* and its entries can carry different capture times.  Here args is the pair
\* of lists and out the two results: model from NetworkModel.calculateRates,
\* collector from GopsutilCollector.CalculateNetworkRates.
\* ---------------------------------------------------------------------------

PairEntries ==
    UNION {NetworkEntries("eth0", FewCounters, t)
           \cup NetworkEntries("wlan0", {<<1, 1>>}, t) : t \in 0..MaxStamp}

PairLists ==
    {<<>>} \cup {<<e>> : e \in PairEntries}
           \cup {<<e, f>> : e \in PairEntries, f \in PairEntries}

NoResults == [model |-> EmptyMap, collector |-> EmptyMap]

InitPairs ==
    /\ NewMainModel
    /\ now = 0
    /\ ticks = 1
    /\ running = [r \in Resources |-> 1]
    /\ msgs = [r \in Resources |-> EmptyBag]
    /\ refreshes = 0
    /\ args \in [previous : PairLists, current : PairLists, done : {FALSE}]
    /\ out = NoResults
    /\ streak = [r \in Resources |-> 0]
    /\ wiped = [r \in Resources |-> 0]

CalculateBoth ==
    /\ ~args.done
    /\ out' = [model |-> calculateRates(args.previous, args.current),
               collector |-> CalculateNetworkRates(args.previous, args.current)]
    /\ args' = [args EXCEPT !.done = TRUE]
    /\ UNCHANGED <<progVars, streak, wiped>>

NextPairs == CalculateBoth

SpecPairs == InitPairs /\ [][NextPairs]_vars

\* C39: the collector's CalculateNetworkRates and the network model's
\* calculateRates return the same rate map for every pair of lists: empty
\* lists, lists naming an interface twice, equal or reversed capture times
\* and decreased counters included.
C39_RateFunctionsAgree ==
    args.done => out.model = out.collector

\* Both lists name eth0 twice.  The second previous entry is the one looked
\* up; the first current entry is later than it with a lower sent counter
\* and a higher received one, the second current entry is not later than it:
\* both functions returned the first entry's rates, 0 sent.
C39_Witness ==
    /\ args.done
    /\ Len(args.previous) = 2 /\ Len(args.current) = 2
    /\ \A i \in 1..2 : /\ args.previous[i].Interface = "eth0"
                       /\ args.current[i].Interface = "eth0"
    /\ args.previous[1] # args.previous[2]
    /\ args.current[1].Timestamp > args.previous[2].Timestamp
    /\ args.current[1].BytesSent < args.previous[2].BytesSent
    /\ args.current[1].BytesRecv > args.previous[2].BytesRecv
    /\ args.current[2].Timestamp <= args.previous[2].Timestamp
    /\ DOMAIN out.collector = {"eth0"}
    /\ out.collector["eth0"].SendRate = ZeroRate
    /\ out.collector["eth0"].RecvRate.n > 0
====
